---- MODULE Spec2Model ----
(***************************************************************************)
(* Model of the go-powerwall client: the auth coordinator (authManager,   *)
(* doAuthMsg, performLogin), the callers' entry points (DoLogin,          *)
(* checkLogin, GetAuthToken, SetAuthToken, the endpoint wrappers),        *)
(* doHttpRequest and the retry loop httpDo.                                *)
(*                                                                         *)
(* auth_ch and token_ch are unbuffered channels: a send and a receive     *)
(* happen together, so every channel operation is one action that moves   *)
(* both the coordinator and the caller.  A caller that has reached a      *)
(* channel operation and waits for the coordinator is "blocked" there.    *)
(***************************************************************************)
EXTENDS Integers, Sequences, FiniteSets, TLC

\* ---------------------------------------------------------------- bounds
MaxOps == 2
MaxSeqCalls == 4
MaxTimeout == 3
MaxInterval == 2
MaxDur == 3
MaxAttempts == 4
MaxEntries == 2
MaxTerms == 2

\* ------------------------------------------------------------- constants
cmd_DO_LOGIN == 0
cmd_CHECK_LOGIN == 1
cmd_SET_TOKEN == 2

Callers == {"c1", "c2"}
SeqCallers == {"c1"}
Tokens == {"T1", "T2"}
NoToken == ""
TokenValues == Tokens \cup {NoToken}

nil == "nil"
NoCaller == "nobody"

\* The credentials bound to the Client at construction.
gatewayLoginEmail == "email"
gatewayLoginPassword == "password"

\* API paths, as the sequence of their "/"-separated segments.
LoginApi == <<"login", "Basic">>
StatusApi == <<"status">>
SiteInfoApi == <<"site_info">>
EndpointApis == {StatusApi, SiteInfoApi}

\* ---------------------------------------------------------------- state
VARIABLES
    authToken,   \* authManager: local variable authToken
    mpc,         \* authManager: position ("sel1", "sel2", "doAuthMsg", "login", "reply";
                 \*              "token_wait": blocked receiving from token_ch)
    mmsg,        \* authManager: the authMessage being processed
    merr,        \* doAuthMsg: err
    mreq,        \* the login request in flight (performLogin)
    mbefore,     \* authToken when the message being processed was received
    mexch,       \* login exchanges performed for the message being processed
    mresp,       \* outcome of the login exchange made for that message
    pc,          \* caller -> position
    api,         \* caller -> path of the endpoint call in progress
    arg,         \* caller -> argument of SetAuthToken
    tok,         \* caller -> last value received from token_ch
    req,         \* caller -> the request built by doHttpRequest
    st1,         \* caller -> outcome of the first httpDo of the call
    st2,         \* caller -> outcome of the second httpDo of the call
    relog,       \* caller -> <<token, err>> of the re-login done for this call
    nDoLogin,    \* caller -> DoLogin calls made by the doHttpRequest in progress
    nHttpDo,     \* caller -> httpDo calls made by the doHttpRequest in progress
    fresh,       \* caller -> no mutation was applied since the coordinator
                 \*           served this caller's own SetAuthToken or re-login
    ret,         \* caller -> what that operation returned
    opsLeft,     \* operations the callers may still start
    rt,          \* state of one httpDo retry loop
    ax,          \* state of one apiGetJson / apiPostJson call from its final response on
    cd,          \* state of one use of a decoder of the custom JSON types
    owed,        \* history: the tokens left by the messages the coordinator
                 \*          finished since it last sent a value on token_ch
    pending,     \* history: the callers that were blocked sending a
                 \*          checkLogin message when a login made for another
                 \*          caller's checkLogin succeeded, until their own
                 \*          checkLogin returns
    served,      \* history: caller -> values sent on token_ch while this
                 \*          caller has been blocked sending on auth_ch
    chk          \* history: caller -> <<login exchanges made, whether it failed>>
                 \*          of the checkLogin of the endpoint call in progress

vars == <<authToken, mpc, mmsg, merr, mreq, mbefore, mexch, mresp,
          pc, api, arg, tok, req, st1, st2, relog, nDoLogin, nHttpDo,
          fresh, ret, opsLeft, rt, ax, cd, owed, pending, served, chk>>

mgrVars == <<authToken, mpc, mmsg, merr, mreq, mbefore, mexch, mresp, owed, pending>>
callVars == <<api, arg, tok, req, st1, st2, relog, nDoLogin, nHttpDo, served, chk>>
envVars == <<rt, ax, cd>>

\* ------------------------------------------------------------- messages
NoMsg == [action |-> -1, email |-> "", password |-> "", token |-> NoToken, from |-> NoCaller]
NoReq == [api |-> <<>>, cookies |-> <<>>, payload |-> <<>>]
NoResp == [kind |-> "none"]

\* http.NewRequest: a request without cookies.
NewRequest(path, payload) == [api |-> path, cookies |-> <<>>, payload |-> payload]

\* Variant: only the bare path "login" is taken for a login call.
IsLoginCall_bare(path) == path = <<"login">>

\* strings.HasPrefix(api, "login/")
IsLoginCall(path) == Len(path) >= 2 /\ path[1] = "login"

\* Variant: only 401 is taken for an authentication failure.
IsAuthStatus_only401(status) == status = 401

\* Variant: every status from 400 up is taken for an authentication failure.
IsAuthStatus_from400(status) == status >= 400

\* resp.StatusCode == 401 || resp.StatusCode == 403
IsAuthStatus(status) == status = 401 \/ status = 403

\* Variant: the cookie is attached whatever the token.
FirstCookies_always(r, authTok) == [r EXCEPT !.cookies = Append(r.cookies, authTok)]

\* Variant: the first request never carries the cookie.
FirstCookies_never(r, authTok) == r

\* The cookie attached to the first request: only for a non-empty token.
FirstCookies(r, authTok) ==
    IF authTok # NoToken THEN [r EXCEPT !.cookies = Append(r.cookies, authTok)] ELSE r

\* Variant: the Cookie header is not deleted before the new cookie is added.
RetryCookies_keep(r, authTok) == [r EXCEPT !.cookies = Append(r.cookies, authTok)]

\* req.Header.Del("Cookie"); req.AddCookie(cookie)
RetryCookies(r, authTok) == [r EXCEPT !.cookies = Append(<<>>, authTok)]

\* Variant: a status of 300 is taken for a success.
StatusError_lax(status) ==
    IF IsAuthStatus(status) THEN "AuthFailure"
    ELSE IF status < 200 \/ status > 300 THEN "ApiError"
    ELSE nil

\* The error doHttpRequest returns for the final response.
StatusError(status) ==
    IF IsAuthStatus(status) THEN "AuthFailure"
    ELSE IF status < 200 \/ status >= 300 THEN "ApiError"
    ELSE nil

\* Outcomes of one httpDo: a transport error or a response with a status.
Statuses == {200, 401, 403, 500}
NetErr == [kind |-> "neterr"]
HttpResp(s) == [kind |-> "http", status |-> s]
Responses == {NetErr} \cup {HttpResp(s) : s \in Statuses}

\* Outcomes of the login exchange: as above, and a 2xx body from which
\* json.Unmarshal extracted a token (or none), with or without an error.
LoginBody(s, t, ok) == [kind |-> "http", status |-> s, token |-> t, decoded |-> ok]
LoginResponses ==
    {NetErr} \cup {LoginBody(s, NoToken, TRUE) : s \in {401, 403, 500}}
             \cup {LoginBody(200, t, ok) : t \in TokenValues, ok \in BOOLEAN}

\* Variant: a response whose decoding reported an error leaves no token.
ApiPostLogin_dropOnError(r) ==
    IF r.kind = "neterr" THEN <<NoToken, "neterr">>
    ELSE IF StatusError(r.status) # nil THEN <<NoToken, StatusError(r.status)>>
    ELSE IF r.decoded THEN <<r.token, nil>> ELSE <<NoToken, "DecodeError">>

\* apiPostJson("login/Basic", ld, &resp): <<resp.Token, err>>
ApiPostLogin(r) ==
    IF r.kind = "neterr" THEN <<NoToken, "neterr">>
    ELSE IF StatusError(r.status) # nil THEN <<NoToken, StatusError(r.status)>>
    ELSE <<r.token, IF r.decoded THEN nil ELSE "DecodeError">>

\* Variant: a 2xx login response without a token is taken for a success.
PerformLogin_noTokenOk(r) ==
    LET got == ApiPostLogin(r) IN
    IF got[1] # NoToken THEN <<got[1], nil>>
    ELSE <<NoToken, got[2]>>

\* Variant: the error is looked at before the token.
PerformLogin_errFirst(r) ==
    LET got == ApiPostLogin(r) IN
    IF got[2] # nil THEN <<got[1], got[2]>>
    ELSE IF got[1] # NoToken THEN <<got[1], nil>>
    ELSE <<NoToken, "NoAuthToken">>

\* performLogin: the token and the error it returns.
PerformLogin(r) ==
    LET got == ApiPostLogin(r) IN
    IF got[1] # NoToken THEN <<got[1], nil>>
    ELSE IF got[2] # nil THEN <<NoToken, got[2]>>
    ELSE <<NoToken, "NoAuthToken">>

\* Endpoint wrappers: every wrapper but GetStatus calls checkLogin first.
CallsCheckLogin(path) == path # StatusApi

\* ------------------------------------------------------------- positions
SendPcs == {"login_send", "check_send", "relogin_send", "set_send"}
RecvPcs == {"get_recv", "set_recv", "req_token", "req_token2"}

\* Variant: checkLogin sends the message of DoLogin.
MsgOf_checkAsLogin(c) ==
    [action |-> IF pc[c] = "set_send" THEN cmd_SET_TOKEN ELSE cmd_DO_LOGIN,
     email |-> IF pc[c] = "set_send" THEN "" ELSE gatewayLoginEmail,
     password |-> IF pc[c] = "set_send" THEN "" ELSE gatewayLoginPassword,
     token |-> IF pc[c] = "set_send" THEN arg[c] ELSE NoToken,
     from |-> c]

\* The authMessage a caller blocked on auth_ch is sending.
MsgOf(c) ==
    [action |-> IF pc[c] = "set_send" THEN cmd_SET_TOKEN
                ELSE IF pc[c] = "check_send" THEN cmd_CHECK_LOGIN
                ELSE cmd_DO_LOGIN,
     email |-> IF pc[c] = "set_send" THEN "" ELSE gatewayLoginEmail,
     password |-> IF pc[c] = "set_send" THEN "" ELSE gatewayLoginPassword,
     token |-> IF pc[c] = "set_send" THEN arg[c] ELSE NoToken,
     from |-> c]

\* Variant: SetAuthToken too waits for a result after its message.
AfterSend_setWaits(p) ==
    CASE p = "login_send" -> "login_wait"
      [] p = "check_send" -> "check_wait"
      [] p = "relogin_send" -> "relogin_wait"
      [] p = "set_send" -> "login_wait"

\* Where the sender continues once auth_ch <- &action has completed.
AfterSend(p) ==
    CASE p = "login_send" -> "login_wait"
      [] p = "check_send" -> "check_wait"
      [] p = "relogin_send" -> "relogin_wait"
      [] p = "set_send" -> "set_recv"

\* ------------------------------------------------------------------ init
RtIdle == [pc |-> "idle", interval |-> 0, timeout |-> 0, now |-> 0, start |-> 0,
           attempt |-> 0, attempts |-> 0, firstDur |-> 0, firstErr |-> FALSE,
           last |-> "none", errOf |-> 0, slept |-> 0]

AxIdle == [pc |-> "idle"]
CdIdle == [pc |-> "idle"]

NoRet == [op |-> "none"]
NoRelog == <<NoToken, nil>>
NoChk == <<0, "none">>

InitAuth ==
    /\ authToken = NoToken
    /\ mpc = "sel1"
    /\ mmsg = NoMsg
    /\ merr = nil
    /\ mreq = NoReq
    /\ mbefore = NoToken
    /\ mexch = 0
    /\ mresp = NoResp
    /\ pc = [c \in Callers |-> "idle"]
    /\ api = [c \in Callers |-> <<>>]
    /\ arg = [c \in Callers |-> NoToken]
    /\ tok = [c \in Callers |-> NoToken]
    /\ req = [c \in Callers |-> NoReq]
    /\ st1 = [c \in Callers |-> NoResp]
    /\ st2 = [c \in Callers |-> NoResp]
    /\ relog = [c \in Callers |-> NoRelog]
    /\ nDoLogin = [c \in Callers |-> 0]
    /\ nHttpDo = [c \in Callers |-> 0]
    /\ fresh = [c \in Callers |-> FALSE]
    /\ ret = [c \in Callers |-> NoRet]
    /\ owed = {}
    /\ pending = {}
    /\ served = [c \in Callers |-> 0]
    /\ chk = [c \in Callers |-> NoChk]

Init ==
    /\ InitAuth
    /\ opsLeft = MaxOps
    /\ rt = RtIdle
    /\ ax = AxIdle
    /\ cd = CdIdle

\* --------------------------------------------------- callers: entry points
\* An idle caller starts an operation: it continues at position p; what the
\* previous operation left in its local variables is gone.
Start(c, p, path, t) ==
    /\ pc[c] = "idle"
    /\ pc' = [pc EXCEPT ![c] = p]
    /\ api' = [api EXCEPT ![c] = path]
    /\ arg' = [arg EXCEPT ![c] = IF p = "get_recv" THEN @ ELSE t]
    /\ tok' = [tok EXCEPT ![c] = NoToken]
    /\ req' = [req EXCEPT ![c] = IF p = "req_token" THEN NewRequest(path, <<>>) ELSE NoReq]
    /\ st1' = [st1 EXCEPT ![c] = NoResp]
    /\ st2' = [st2 EXCEPT ![c] = NoResp]
    /\ relog' = [relog EXCEPT ![c] = NoRelog]
    /\ nDoLogin' = [nDoLogin EXCEPT ![c] = 0]
    /\ nHttpDo' = [nHttpDo EXCEPT ![c] = 0]
    /\ ret' = [ret EXCEPT ![c] = NoRet]
    /\ fresh' = [fresh EXCEPT ![c] = @ /\ p = "get_recv"]
    /\ served' = [served EXCEPT ![c] = 0]
    /\ chk' = [chk EXCEPT ![c] = NoChk]
    /\ UNCHANGED <<mgrVars, envVars>>

\* One of the operations the callers make in a bounded run.
Begin(c, p, path, t) ==
    /\ opsLeft > 0
    /\ opsLeft' = opsLeft - 1
    /\ Start(c, p, path, t)

\* DoLogin(): c.auth_ch <- &action
CallDoLogin(c) == Begin(c, "login_send", <<>>, NoToken)

\* GetAuthToken(): <-c.token_ch
CallGetAuthToken(c) == Begin(c, "get_recv", <<>>, NoToken)

\* SetAuthToken(token): c.auth_ch <- &authMessage{...}
CallSetAuthToken(c, t) == Begin(c, "set_send", <<>>, t)

\* An endpoint wrapper: checkLogin() when the wrapper has one, then
\* apiGetJson(path) -> doHttpRequest(path), which builds the request and
\* asks for the token.
CallEndpoint(c, path) ==
    /\ ~IsLoginCall(path)
    /\ Begin(c, IF CallsCheckLogin(path) THEN "check_send" ELSE "req_token", path, NoToken)

\* Variant: a wrapper returns when its checkLogin failed.
AfterCheckLogin_abort(err) == IF err # nil THEN "idle" ELSE "req_token"

\* c.checkLogin() in an endpoint wrapper: the error is dropped and the
\* wrapper goes on to apiGetJson, whose doHttpRequest asks for the token.
AfterCheckLogin(err) == "req_token"

\* Variant: the error of the re-login is ignored.
ReloginFailed_never(err) == FALSE

\* doHttpRequest after err = c.DoLogin(): if err != nil { return nil, err }
ReloginFailed(err) == err # nil

\* ------------------------------------------------------------ authManager
\* Back to the top of the for loop: the message is done with.
LoopAgain ==
    /\ mpc' = "sel1"
    /\ mmsg' = NoMsg
    /\ merr' = nil
    /\ mreq' = NoReq
    /\ mbefore' = NoToken
    /\ mexch' = 0
    /\ mresp' = NoResp

\* A mutation has been applied: callers that wait to read the token (or
\* have not asked yet) no longer hold an undisturbed view.
Disturbed ==
    [d \in Callers |-> fresh[d] /\ pc[d] \notin {"idle", "get_recv", "req_token2"}]

\* case msg := <-c.auth_ch (either select): take the message of a blocked
\* sender; the sender goes on to wait for its reply (or for the token).
Receive(c) ==
    /\ pc[c] \in SendPcs
    /\ mmsg' = MsgOf(c)
    /\ mbefore' = authToken
    /\ mpc' = "doAuthMsg"
    /\ pc' = [pc EXCEPT ![c] = AfterSend(pc[c])]
    /\ served' = [served EXCEPT ![c] = 0]
    /\ UNCHANGED <<authToken, merr, mreq, mexch, mresp, owed, pending, api, arg, tok, req,
                   st1, st2, relog, nDoLogin, nHttpDo, chk, fresh, ret, envVars, opsLeft>>

\* First select: a message is waiting.
Select1Recv(c) ==
    /\ mpc = "sel1"
    /\ Receive(c)

\* Variant: the first select takes its default case whoever is waiting.
Select1Default_unguarded ==
    /\ mpc = "sel1"
    /\ mpc' = "sel2"
    /\ UNCHANGED <<authToken, mmsg, merr, mreq, mbefore, mexch, mresp, owed, pending, pc, callVars,
                   fresh, ret, envVars, opsLeft>>

\* First select: default, when no sender is blocked on auth_ch.
Select1Default ==
    /\ mpc = "sel1"
    /\ \A c \in Callers : pc[c] \notin SendPcs
    /\ mpc' = "sel2"
    /\ UNCHANGED <<authToken, mmsg, merr, mreq, mbefore, mexch, mresp, owed, pending, pc, callVars,
                   fresh, ret, envVars, opsLeft>>

\* Second select, case msg := <-c.auth_ch.
Select2Recv(c) ==
    /\ mpc = "sel2"
    /\ Receive(c)

\* Variant: SetAuthToken returns after the first value it reads.
TokenSeen_first(t, token) == TRUE

\* SetAuthToken: if t == token { break }
TokenSeen(t, token) == t = token

\* What a caller does with the value it received from token_ch.
TakeToken(c, t) ==
    /\ tok' = [tok EXCEPT ![c] = t]
    /\ CASE pc[c] = "get_recv" ->
              /\ pc' = [pc EXCEPT ![c] = "idle"]
              /\ ret' = [ret EXCEPT ![c] = [op |-> "GetAuthToken", val |-> t,
                                            afterSet |-> fresh[c]]]
              /\ fresh' = [fresh EXCEPT ![c] = FALSE]
              /\ UNCHANGED <<req, nHttpDo>>
         [] pc[c] = "set_recv" ->
              IF TokenSeen(t, arg[c])
              THEN /\ pc' = [pc EXCEPT ![c] = "idle"]
                   /\ ret' = [ret EXCEPT ![c] = [op |-> "SetAuthToken"]]
                   /\ fresh' = [fresh EXCEPT ![c] = TRUE]
                   /\ UNCHANGED <<req, nHttpDo>>
              ELSE UNCHANGED <<pc, ret, req, nHttpDo, fresh>>
         [] pc[c] = "req_token" ->
              /\ pc' = [pc EXCEPT ![c] = "req1"]
              /\ req' = [req EXCEPT ![c] = FirstCookies(@, t)]
              /\ nHttpDo' = [nHttpDo EXCEPT ![c] = @ + 1]
              /\ UNCHANGED <<ret, fresh>>
         [] pc[c] = "req_token2" ->
              /\ pc' = [pc EXCEPT ![c] = "req2"]
              /\ req' = [req EXCEPT ![c] = RetryCookies(@, t)]
              /\ nHttpDo' = [nHttpDo EXCEPT ![c] = @ + 1]
              /\ UNCHANGED <<ret, fresh>>

\* Variant: the coordinator sends the empty token whatever it holds.
Select2SendToken_empty(c) ==
    /\ mpc = "sel2"
    /\ pc[c] \in RecvPcs
    /\ TakeToken(c, NoToken)
    /\ mpc' = "sel1"
    /\ owed' = {}
    /\ served' = [d \in Callers |->
                    IF pc[d] \in SendPcs /\ served[d] < 2 THEN served[d] + 1 ELSE served[d]]
    /\ UNCHANGED <<authToken, mmsg, merr, mreq, mbefore, mexch, mresp, pending, api, arg,
                   st1, st2, relog, nDoLogin, chk, envVars, opsLeft>>

\* Variant: the coordinator also serves token_ch while a login is in flight.
Select2SendToken_anytime(c) ==
    /\ mpc \in {"sel2", "login"}
    /\ pc[c] \in RecvPcs
    /\ TakeToken(c, authToken)
    /\ mpc' = IF mpc = "sel2" THEN "sel1" ELSE mpc
    /\ owed' = {}
    /\ served' = [d \in Callers |->
                    IF pc[d] \in SendPcs /\ served[d] < 2 THEN served[d] + 1 ELSE served[d]]
    /\ UNCHANGED <<authToken, mmsg, merr, mreq, mbefore, mexch, mresp, pending, api, arg,
                   st1, st2, relog, nDoLogin, chk, envVars, opsLeft>>

\* Variant: the token goes to the loop of SetAuthToken and to doHttpRequest
\* only, never to a GetAuthToken.
Select2SendToken_noReaders(c) ==
    /\ mpc = "sel2"
    /\ pc[c] \in RecvPcs \ {"get_recv"}
    /\ TakeToken(c, authToken)
    /\ mpc' = "sel1"
    /\ owed' = {}
    /\ served' = [d \in Callers |->
                    IF pc[d] \in SendPcs /\ served[d] < 2 THEN served[d] + 1 ELSE served[d]]
    /\ UNCHANGED <<authToken, mmsg, merr, mreq, mbefore, mexch, mresp, pending, api, arg,
                   st1, st2, relog, nDoLogin, chk, envVars, opsLeft>>

\* Second select, case c.token_ch <- authToken.
Select2SendToken(c) ==
    /\ mpc = "sel2"
    /\ pc[c] \in RecvPcs
    /\ TakeToken(c, authToken)
    /\ mpc' = "sel1"
    /\ owed' = {}
    /\ served' = [d \in Callers |->
                    IF pc[d] \in SendPcs /\ served[d] < 2 THEN served[d] + 1 ELSE served[d]]
    /\ UNCHANGED <<authToken, mmsg, merr, mreq, mbefore, mexch, mresp, pending, api, arg,
                   st1, st2, relog, nDoLogin, chk, envVars, opsLeft>>

\* doAuthMsg, case cmd_SET_TOKEN.
DoAuthMsgSetToken ==
    /\ mpc = "doAuthMsg"
    /\ mmsg.action = cmd_SET_TOKEN
    /\ authToken' = mmsg.token
    /\ owed' = owed \cup {mmsg.token}
    /\ fresh' = Disturbed
    /\ LoopAgain
    /\ UNCHANGED <<pending, pc, callVars, ret, envVars, opsLeft>>

\* Variant: DoLogin too skips the login when a token is held.
NeedsLogin_lazy(msg, token) == token = NoToken

\* Variant: checkLogin logs in whatever the token.
NeedsLogin_eager(msg, token) == msg.action \in {cmd_DO_LOGIN, cmd_CHECK_LOGIN}

\* doAuthMsg decides whether the message needs performLogin.
NeedsLogin(msg, token) ==
    \/ msg.action = cmd_DO_LOGIN
    \/ msg.action = cmd_CHECK_LOGIN /\ token = NoToken

\* doAuthMsg, cmd_DO_LOGIN or cmd_CHECK_LOGIN with an empty token:
\* performLogin posts the credentials of the message to login/Basic; the
\* login branch of doHttpRequest sends the request as built.  A path
\* doHttpRequest did not take for a login call would go to the other branch,
\* whose first statement, c.GetAuthToken(), receives from token_ch: the
\* coordinator, the only sender on that channel, would wait there for ever.
DoAuthMsgLogin ==
    /\ mpc = "doAuthMsg"
    /\ mmsg.action # cmd_SET_TOKEN
    /\ NeedsLogin(mmsg, authToken)
    /\ mreq' = NewRequest(LoginApi, <<mmsg.email, mmsg.password>>)
    /\ mexch' = mexch + 1
    /\ mpc' = IF IsLoginCall(LoginApi) THEN "login" ELSE "token_wait"
    /\ UNCHANGED <<authToken, mmsg, merr, mbefore, mresp, owed, pending, pc, callVars,
                   fresh, ret, envVars, opsLeft>>

\* doAuthMsg, cmd_CHECK_LOGIN with a token: err = nil.
DoAuthMsgCheckNoop ==
    /\ mpc = "doAuthMsg"
    /\ mmsg.action # cmd_SET_TOKEN
    /\ ~NeedsLogin(mmsg, authToken)
    /\ merr' = nil
    /\ mpc' = "reply"
    /\ UNCHANGED <<authToken, mmsg, mreq, mbefore, mexch, mresp, owed, pending, pc, callVars,
                   fresh, ret, envVars, opsLeft>>

\* The login exchange ends with outcome r (httpDo of the login branch of
\* doHttpRequest): *authToken, err = c.performLogin(...)
LoginDone(r) ==
    /\ mpc = "login"
    /\ mresp' = r
    /\ authToken' = PerformLogin(r)[1]
    /\ merr' = PerformLogin(r)[2]
    /\ fresh' = Disturbed
    /\ mpc' = "reply"
    /\ pending' = IF pc[mmsg.from] = "check_wait" /\ PerformLogin(r)[2] = nil
                  THEN {d \in Callers : pc[d] = "check_send"}
                  ELSE pending
    /\ UNCHANGED <<mmsg, mreq, mbefore, mexch, owed, pc, callVars, ret, envVars, opsLeft>>

\* msg.result_ch <- err: the sender, blocked on <-action.result_ch, takes
\* the error and continues.
Reply ==
    /\ mpc = "reply"
    /\ LET c == mmsg.from IN
         CASE pc[c] = "login_wait" ->
                \* DoLogin returns the error
                /\ pc' = [pc EXCEPT ![c] = "idle"]
                /\ ret' = [ret EXCEPT ![c] = [op |-> "DoLogin", err |-> merr]]
                /\ UNCHANGED <<callVars, fresh>>
           [] pc[c] = "check_wait" ->
                \* the wrapper discards the error and calls apiGetJson:
                \* doHttpRequest builds the request and asks for the token
                /\ pc' = [pc EXCEPT ![c] = AfterCheckLogin(merr)]
                /\ req' = [req EXCEPT ![c] = NewRequest(api[c], <<>>)]
                /\ chk' = [chk EXCEPT ![c] = <<mexch, IF merr = nil THEN "nil" ELSE "failed">>]
                /\ UNCHANGED <<api, arg, tok, st1, st2, relog, nDoLogin, nHttpDo, served,
                               fresh, ret>>
           [] pc[c] = "relogin_wait" ->
                \* err = c.DoLogin(); if err != nil { return nil, err }
                /\ relog' = [relog EXCEPT ![c] = <<authToken, merr>>]
                /\ IF ReloginFailed(merr)
                   THEN /\ pc' = [pc EXCEPT ![c] = "idle"]
                        /\ ret' = [ret EXCEPT ![c] = [op |-> "Endpoint", err |-> merr]]
                        /\ UNCHANGED fresh
                   ELSE /\ pc' = [pc EXCEPT ![c] = "req_token2"]
                        /\ fresh' = [fresh EXCEPT ![c] = TRUE]
                        /\ UNCHANGED ret
                /\ chk' = [chk EXCEPT ![c] = IF pc'[c] = "idle" THEN NoChk ELSE @]
                /\ UNCHANGED <<api, arg, tok, req, st1, st2, nDoLogin, nHttpDo, served>>
    /\ owed' = owed \cup {authToken}
    /\ pending' = pending \ {mmsg.from}
    /\ LoopAgain
    /\ UNCHANGED <<authToken, envVars, opsLeft>>

\* ---------------------------------------------------------- doHttpRequest
\* Variant: a transport error of the first httpDo triggers the re-login too.
FirstResponse_reloginOnNetErr(c, r) ==
    /\ pc[c] = "req1"
    /\ st1' = [st1 EXCEPT ![c] = r]
    /\ IF r.kind = "neterr" \/ IsAuthStatus(r.status)
       THEN /\ pc' = [pc EXCEPT ![c] = "relogin_send"]
            /\ nDoLogin' = [nDoLogin EXCEPT ![c] = @ + 1]
            /\ UNCHANGED ret
       ELSE /\ pc' = [pc EXCEPT ![c] = "idle"]
            /\ ret' = [ret EXCEPT ![c] = [op |-> "Endpoint", err |-> StatusError(r.status)]]
            /\ UNCHANGED nDoLogin
    /\ UNCHANGED <<mgrVars, api, arg, tok, req, st2, relog, nHttpDo, served,
                   fresh, envVars, opsLeft>>
    /\ chk' = [chk EXCEPT ![c] = IF pc'[c] = "idle" THEN NoChk ELSE @]

\* The first httpDo of a non-login call ends with outcome r.
FirstResponse(c, r) ==
    /\ pc[c] = "req1"
    /\ st1' = [st1 EXCEPT ![c] = r]
    /\ IF r.kind = "neterr"
       THEN /\ pc' = [pc EXCEPT ![c] = "idle"]
            /\ ret' = [ret EXCEPT ![c] = [op |-> "Endpoint", err |-> "neterr"]]
            /\ UNCHANGED nDoLogin
       ELSE IF IsAuthStatus(r.status)
       THEN \* err = c.DoLogin(): c.auth_ch <- &action
            /\ pc' = [pc EXCEPT ![c] = "relogin_send"]
            /\ nDoLogin' = [nDoLogin EXCEPT ![c] = @ + 1]
            /\ UNCHANGED ret
       ELSE /\ pc' = [pc EXCEPT ![c] = "idle"]
            /\ ret' = [ret EXCEPT ![c] = [op |-> "Endpoint", err |-> StatusError(r.status)]]
            /\ UNCHANGED nDoLogin
    /\ UNCHANGED <<mgrVars, api, arg, tok, req, st2, relog, nHttpDo, served,
                   fresh, envVars, opsLeft>>
    /\ chk' = [chk EXCEPT ![c] = IF pc'[c] = "idle" THEN NoChk ELSE @]

\* The httpDo of the re-sent request ends with outcome r.
SecondResponse(c, r) ==
    /\ pc[c] = "req2"
    /\ st2' = [st2 EXCEPT ![c] = r]
    /\ pc' = [pc EXCEPT ![c] = "idle"]
    /\ ret' = [ret EXCEPT ![c] = [op |-> "Endpoint",
                                  err |-> IF r.kind = "neterr" THEN "neterr"
                                          ELSE StatusError(r.status)]]
    /\ fresh' = [fresh EXCEPT ![c] = FALSE]
    /\ chk' = [chk EXCEPT ![c] = NoChk]
    /\ UNCHANGED <<mgrVars, api, arg, tok, req, st1, relog, nDoLogin, nHttpDo, served,
                   envVars, opsLeft>>

\* ------------------------------------------------------------------ next
Next ==
    \/ \E c \in Callers : CallDoLogin(c)
    \/ \E c \in Callers : CallGetAuthToken(c)
    \/ \E c \in Callers, t \in TokenValues : CallSetAuthToken(c, t)
    \/ \E c \in Callers, path \in EndpointApis : CallEndpoint(c, path)
    \/ \E c \in Callers : Select1Recv(c)
    \/ Select1Default
    \/ \E c \in Callers : Select2Recv(c)
    \/ \E c \in Callers : Select2SendToken(c)
    \/ DoAuthMsgSetToken
    \/ DoAuthMsgLogin
    \/ DoAuthMsgCheckNoop
    \/ \E r \in LoginResponses : LoginDone(r)
    \/ Reply
    \/ \E c \in Callers, r \in Responses : FirstResponse(c, r)
    \/ \E c \in Callers, r \in Responses : SecondResponse(c, r)

Spec == Init /\ [][Next]_vars

\* ------------------------------------------- one caller, accepting server
\* The server of the sequential scenario: every login is granted a token,
\* and a request that carries a token is never answered 401 or 403.
GrantingLogins == {LoginBody(200, t, ok) : t \in Tokens, ok \in BOOLEAN}

AcceptingResponses(r) ==
    IF Len(r.cookies) = 1 /\ r.cookies[1] \in Tokens
    THEN {x \in Responses : x.kind = "neterr" \/ x.status \notin {401, 403}}
    ELSE Responses

\* The responses of that server to the requests of doHttpRequest.
AcceptedFirstResponse(c, r) ==
    /\ r \in AcceptingResponses(req[c])
    /\ FirstResponse(c, r)

AcceptedSecondResponse(c, r) ==
    /\ r \in AcceptingResponses(req[c])
    /\ SecondResponse(c, r)

InitSeq ==
    /\ InitAuth
    /\ opsLeft = MaxSeqCalls
    /\ rt = RtIdle
    /\ ax = AxIdle
    /\ cd = CdIdle

NextSeq ==
    \/ \E c \in SeqCallers, path \in EndpointApis : CallEndpoint(c, path)
    \/ \E c \in SeqCallers : Select1Recv(c)
    \/ Select1Default
    \/ \E c \in SeqCallers : Select2Recv(c)
    \/ \E c \in SeqCallers : Select2SendToken(c)
    \/ DoAuthMsgLogin
    \/ DoAuthMsgCheckNoop
    \/ \E r \in GrantingLogins : LoginDone(r)
    \/ Reply
    \/ \E c \in SeqCallers, r \in Responses : AcceptedFirstResponse(c, r)
    \/ \E c \in SeqCallers, r \in Responses : AcceptedSecondResponse(c, r)

SpecSeq == InitSeq /\ [][NextSeq]_vars

\* ------------------------------------------- callers that never stop calling
\* The callers start operations without end: every operation of one client
\* in every interleaving, the callers free to call again as soon as they
\* have returned.
InitLive ==
    /\ InitAuth
    /\ opsLeft = 0
    /\ rt = RtIdle
    /\ ax = AxIdle
    /\ cd = CdIdle

\* An operation outside any budget.
Again(c, p, path, t) ==
    /\ Start(c, p, path, t)
    /\ UNCHANGED opsLeft

\* One step of the authManager goroutine.
AuthManager ==
    \/ \E c \in Callers : Select1Recv(c)
    \/ Select1Default
    \/ \E c \in Callers : Select2Recv(c)
    \/ \E c \in Callers : Select2SendToken(c)
    \/ DoAuthMsgSetToken
    \/ DoAuthMsgLogin
    \/ DoAuthMsgCheckNoop
    \/ Reply

\* The outcomes the exchanges take in these runs: a transport error, a
\* refusal and a success.
LiveLogins == {NetErr, LoginBody(401, NoToken, TRUE), LoginBody(200, "T1", TRUE)}
LiveResponses == {NetErr, HttpResp(200), HttpResp(401)}

NextLive ==
    \/ \E c \in Callers : Again(c, "login_send", <<>>, NoToken)
    \/ \E c \in Callers : Again(c, "get_recv", <<>>, NoToken)
    \/ \E c \in Callers, t \in TokenValues : Again(c, "set_send", <<>>, t)
    \/ \E c \in Callers : Again(c, "check_send", SiteInfoApi, NoToken)
    \/ \E c \in Callers : Select1Recv(c)
    \/ Select1Default
    \/ \E c \in Callers : Select2Recv(c)
    \/ \E c \in Callers : Select2SendToken(c)
    \/ DoAuthMsgSetToken
    \/ DoAuthMsgLogin
    \/ DoAuthMsgCheckNoop
    \/ \E r \in LiveLogins : LoginDone(r)
    \/ Reply
    \/ \E c \in Callers, r \in LiveResponses : FirstResponse(c, r)
    \/ \E c \in Callers, r \in LiveResponses : SecondResponse(c, r)

\* The scheduling assumed: the authManager goroutine runs whenever it can
\* take a step, every HTTP exchange ends, and a goroutine blocked on a
\* channel is not passed over for ever (the runtime queues the goroutines
\* blocked on a channel in order of arrival).  Whether a caller calls again
\* is up to the caller.
FairLive ==
    /\ WF_vars(AuthManager)
    /\ WF_vars(\E r \in LiveLogins : LoginDone(r))
    /\ \A c \in Callers : WF_vars(\E r \in LiveResponses : FirstResponse(c, r))
    /\ \A c \in Callers : WF_vars(\E r \in LiveResponses : SecondResponse(c, r))
    /\ \A c \in Callers : SF_vars(Select1Recv(c) \/ Select2Recv(c))
    /\ \A c \in Callers : SF_vars(Select2SendToken(c))

SpecLive == InitLive /\ [][NextLive]_vars /\ FairLive

\* ------------------------------------------------------------------ httpDo
\* One run of the retry loop.  Time is an integer clock that advances while
\* httpClient.Do runs and while the loop sleeps.
RetryIntervals == -1 .. MaxInterval
RetryTimeouts == -1 .. MaxTimeout
Durations == 0 .. MaxDur
AttemptOutcomes == {"neterr", "error", "response"}

\* Variant: the loop gives up one tick early.
RetryExpired_early(elapsed, timeout) == elapsed >= timeout - 1

\* Variant: the loop gives up only when the elapsed time is past the timeout.
RetryExpired_strict(elapsed, timeout) == elapsed > timeout

\* if time.Now().Sub(start_time) >= c.retryTimeout
RetryExpired(elapsed, timeout) == elapsed >= timeout

\* Variant: the loop does not sleep between attempts.
SleepFor_none(interval, spent) == 0

\* Variant: the loop sleeps the whole interval after every failed attempt.
SleepFor_whole(interval, spent) == IF interval > 0 THEN interval ELSE 0

\* time.Sleep(c.retryInterval - spent): returns at once when not positive.
SleepFor(interval, spent) == IF interval - spent > 0 THEN interval - spent ELSE 0

\* SetRetry(interval, timeout), or the zero values of a new Client.
InitRetry ==
    /\ InitAuth
    /\ opsLeft = 0
    /\ \E i \in RetryIntervals, t \in RetryTimeouts :
         rt = [RtIdle EXCEPT !.pc = "start", !.interval = i, !.timeout = t]
    /\ ax = AxIdle
    /\ cd = CdIdle

\* start_time := time.Now()
HttpDoStart ==
    /\ rt.pc = "start"
    /\ rt' = [rt EXCEPT !.pc = "loop", !.start = rt.now]
    /\ UNCHANGED <<mgrVars, pc, callVars, fresh, ret, opsLeft, ax, cd>>

\* attempt_time := time.Now(); resp, err = c.httpClient.Do(req), which takes
\* d; anything but a net.Error leaves the loop.
HttpDoAttempt(d, outcome) ==
    /\ rt.pc = "loop"
    /\ rt.attempts < MaxAttempts
    /\ rt' = [rt EXCEPT !.attempt = rt.now,
                        !.now = rt.now + d,
                        !.attempts = @ + 1,
                        !.last = outcome,
                        !.errOf = rt.attempts + 1,
                        !.firstDur = IF rt.attempts = 0 THEN d ELSE @,
                        !.firstErr = IF rt.attempts = 0 THEN outcome = "neterr" ELSE @,
                        !.pc = IF outcome = "neterr" THEN "check" ELSE "done"]
    /\ UNCHANGED <<mgrVars, pc, callVars, fresh, ret, opsLeft, ax, cd>>

\* The timeout check after a net.Error: give up, or sleep what is left of
\* the interval and go round again.
HttpDoGiveUp ==
    /\ rt.pc = "check"
    /\ RetryExpired(rt.now - rt.start, rt.timeout)
    /\ rt' = [rt EXCEPT !.pc = "done"]
    /\ UNCHANGED <<mgrVars, pc, callVars, fresh, ret, opsLeft, ax, cd>>

HttpDoSleep ==
    /\ rt.pc = "check"
    /\ ~RetryExpired(rt.now - rt.start, rt.timeout)
    /\ rt' = [rt EXCEPT !.pc = "loop",
                        !.slept = SleepFor(rt.interval, rt.now - rt.attempt),
                        !.now = rt.now + SleepFor(rt.interval, rt.now - rt.attempt)]
    /\ UNCHANGED <<mgrVars, pc, callVars, fresh, ret, opsLeft, ax, cd>>

NextRetry ==
    \/ HttpDoStart
    \/ \E d \in Durations, outcome \in AttemptOutcomes : HttpDoAttempt(d, outcome)
    \/ HttpDoGiveUp
    \/ HttpDoSleep

SpecRetry == InitRetry /\ [][NextRetry]_vars

\* ------------------------------------------------------------- encoding/json
\* A text is a sequence of one-character strings.  The decoder below reads
\* the JSON grammar without insignificant white space, with the two string
\* escapes \" and \\, and with numbers made of an integer part and an
\* optional fraction.
DigitChars == <<"0", "1", "2", "3", "4", "5", "6", "7", "8", "9">>
Digits == {DigitChars[k] : k \in 1..Len(DigitChars)}
DigitVal(ch) == CHOOSE d \in 0..9 : DigitChars[d + 1] = ch

JsonFail == [ok |-> FALSE, i |-> 0, val |-> [t |-> "bad", v |-> <<>>]]
JsonOk(i, t, v) == [ok |-> TRUE, i |-> i, val |-> [t |-> t, v |-> v]]
JsonNil == [t |-> "null", v |-> <<>>]

\* s[from .. from + Len(w) - 1] = w
HasWord(s, from, w) ==
    /\ from + Len(w) - 1 <= Len(s)
    /\ \A k \in 1..Len(w) : s[from + k - 1] = w[k]

\* v bound to a name within Body: the value is worked out once, the way a
\* Go local variable holds it.
Let(v, Body(_)) == CHOOSE r \in {Body(x) : x \in {v}} : TRUE

\* The first index from i on that holds a character of set, or Len(s) + 1.
NextIn(s, i, set) ==
    IF \E j \in i..Len(s) : s[j] \in set
    THEN CHOOSE j \in i..Len(s) :
            s[j] \in set /\ \A x \in i..(j - 1) : s[x] \notin set
    ELSE Len(s) + 1

\* The body of a string literal from s[i] on: up to the closing quote,
\* undoing the escapes; a text that ends inside the literal is an error.
RECURSIVE ScanString(_, _, _)
ScanString(s, i, acc) ==
    Let(NextIn(s, i, {"\"", "\\"}), LAMBDA j :
        IF j > Len(s) THEN JsonFail
        ELSE IF s[j] = "\"" THEN JsonOk(j + 1, "str", acc \o SubSeq(s, i, j - 1))
        ELSE IF j + 1 <= Len(s) /\ s[j + 1] \in {"\"", "\\"}
        THEN Let(acc \o SubSeq(s, i, j - 1) \o <<s[j + 1]>>, LAMBDA acc2 :
                 ScanString(s, j + 2, acc2))
        ELSE JsonFail)

\* The index after the run of digits that starts at s[i].
RECURSIVE SkipDigits(_, _)
SkipDigits(s, i) ==
    IF i <= Len(s) /\ s[i] \in Digits THEN SkipDigits(s, i + 1) ELSE i

\* A number literal from s[i] on: 0 or a digit run without a leading 0,
\* then optionally a point and at least one digit.
ScanNumber(s, i) ==
    LET j == IF s[i] = "0" THEN i + 1 ELSE SkipDigits(s, i)
        k == IF j <= Len(s) /\ s[j] = "." THEN SkipDigits(s, j + 1) ELSE j
    IN  IF j = i \/ (j <= Len(s) /\ s[j] = "." /\ k = j + 1)
        THEN JsonFail
        ELSE JsonOk(k, "num", SubSeq(s, i, k - 1))

RECURSIVE ParseValue(_, _), ParseElems(_, _, _), ParseMembers(_, _, _)

\* One JSON value starting at s[i].
ParseValue(s, i) ==
    IF i > Len(s) THEN JsonFail
    ELSE IF s[i] = "\"" THEN ScanString(s, i + 1, <<>>)
    ELSE IF s[i] \in Digits THEN ScanNumber(s, i)
    ELSE IF HasWord(s, i, <<"n", "u", "l", "l">>) THEN JsonOk(i + 4, "null", <<>>)
    ELSE IF HasWord(s, i, <<"t", "r", "u", "e">>) THEN JsonOk(i + 4, "bool", <<"true">>)
    ELSE IF HasWord(s, i, <<"f", "a", "l", "s", "e">>) THEN JsonOk(i + 5, "bool", <<"false">>)
    ELSE IF s[i] = "["
         THEN IF i + 1 <= Len(s) /\ s[i + 1] = "]"
              THEN JsonOk(i + 2, "arr", <<>>)
              ELSE ParseElems(s, i + 1, <<>>)
    ELSE IF s[i] = "{"
         THEN IF i + 1 <= Len(s) /\ s[i + 1] = "}"
              THEN JsonOk(i + 2, "obj", <<>>)
              ELSE ParseMembers(s, i + 1, <<>>)
    ELSE JsonFail

\* The elements of an array, s[i] being the start of the next element.
ParseElems(s, i, acc) ==
    Let(ParseValue(s, i), LAMBDA e :
        IF ~e.ok \/ e.i > Len(s) THEN JsonFail
        ELSE IF s[e.i] = "]" THEN JsonOk(e.i + 1, "arr", Append(acc, e.val))
        ELSE IF s[e.i] = ","
        THEN Let(Append(acc, e.val), LAMBDA acc2 : ParseElems(s, e.i + 1, acc2))
        ELSE JsonFail)

\* The members of an object, s[i] being the start of the next key.
ParseMembers(s, i, acc) ==
    Let(IF i <= Len(s) /\ s[i] = "\"" THEN ScanString(s, i + 1, <<>>) ELSE JsonFail, LAMBDA k :
    Let(IF k.ok /\ k.i <= Len(s) /\ s[k.i] = ":" THEN ParseValue(s, k.i + 1) ELSE JsonFail, LAMBDA e :
        IF ~e.ok \/ e.i > Len(s) THEN JsonFail
        ELSE IF s[e.i] = "}"
        THEN JsonOk(e.i + 1, "obj", Append(acc, [key |-> k.val.v, val |-> e.val]))
        ELSE IF s[e.i] = ","
        THEN Let(Append(acc, [key |-> k.val.v, val |-> e.val]), LAMBDA acc2 :
                 ParseMembers(s, e.i + 1, acc2))
        ELSE JsonFail))

\* checkValid and the scan of the whole input: exactly one value.
JsonParse(s) ==
    Let(s, LAMBDA text :
    Let(ParseValue(text, 1), LAMBDA r :
        IF r.ok /\ r.i = Len(text) + 1 THEN r ELSE JsonFail))

\* The value of the last member of an object named key, or nil: what a
\* struct field tagged with key receives.
RECURSIVE FieldFrom(_, _, _, _)
FieldFrom(members, key, k, cur) ==
    IF k > Len(members) THEN cur
    ELSE FieldFrom(members, key, k + 1,
                   IF members[k].key = key THEN members[k].val ELSE cur)

Field(obj, key) == FieldFrom(obj.v, key, 1, JsonNil)

\* json.Marshal of a string: the quoted literal with " and \ escaped.
RECURSIVE EscapeFrom(_, _)
EscapeFrom(s, i) ==
    Let(NextIn(s, i, {"\"", "\\"}), LAMBDA j :
        IF j > Len(s) THEN SubSeq(s, i, Len(s))
        ELSE SubSeq(s, i, j - 1) \o <<"\\", s[j]>> \o EscapeFrom(s, j + 1))

MarshalString(s) == Let(s, LAMBDA text : <<"\"">> \o EscapeFrom(text, 1) \o <<"\"">>)

\* ------------------------------------------- doHttpRequest: the final response
\* c.gatewayAddress
gatewayAddress == "gateway"

\* url.URL{Scheme: "https", Host: c.gatewayAddress, Path: "api/" + api}
ApiUrl(path) == [Scheme |-> "https", Host |-> gatewayAddress, Path |-> <<"api">> \o path]

NoErr == [kind |-> nil]
NilData == [isNil |-> TRUE, b |-> <<>>]
Data(body) == [isNil |-> FALSE, b |-> body]

\* The string s as it lands in a field of Go type string: a JSON string is
\* stored, null and a missing key leave the field alone, anything else is an
\* UnmarshalTypeError and leaves the field alone too.
StringField(obj, key, cur) ==
    IF Field(obj, key).t = "str" THEN Field(obj, key).v ELSE cur

StringFieldOk(obj, key) == Field(obj, key).t \in {"str", "null"}

\* json.Unmarshal(body, &errInfo), its error dropped: the error and message
\* fields of the body when it is a JSON object, empty strings otherwise.
ErrorResponse(body) ==
    Let(JsonParse(body), LAMBDA r :
        IF r.ok /\ r.val.t = "obj"
        THEN [Error |-> StringField(r.val, <<"e", "r", "r", "o", "r">>, <<>>),
              Message |-> StringField(r.val, <<"m", "e", "s", "s", "a", "g", "e">>, <<>>)]
        ELSE [Error |-> <<>>, Message |-> <<>>])

\* What doHttpRequest returns for a final response with this status whose
\* body was read, or could not be read: <<data, err>>.
Outcome(path, status, body, readErr) ==
    IF readErr THEN [data |-> NilData, err |-> [kind |-> "ReadError"]]
    ELSE IF StatusError(status) = "AuthFailure"
    THEN [data |-> NilData,
          err |-> [kind |-> "AuthFailure", URL |-> ApiUrl(path),
                   ErrorText |-> ErrorResponse(body).Error,
                   Message |-> ErrorResponse(body).Message]]
    ELSE IF StatusError(status) = "ApiError"
    THEN [data |-> Data(body),
          err |-> [kind |-> "ApiError", URL |-> ApiUrl(path),
                   StatusCode |-> status, Body |-> body]]
    ELSE [data |-> Data(body), err |-> NoErr]

\* The keys of the string fields kept of the result types: loginResponse for
\* the login call, StatusData for the others.
din == <<"d", "i", "n">>
version == <<"v", "e", "r", "s", "i", "o", "n">>
token == <<"t", "o", "k", "e", "n">>
email == <<"e", "m", "a", "i", "l">>
ResultFields(path) == IF IsLoginCall(path) THEN {token, email} ELSE {din, version}

\* result := StatusData{}, resp := loginResponse{}
ZeroResult(path) == [k \in ResultFields(path) |-> <<>>]

\* json.Unmarshal(respData, &result): the result and the error.  A type
\* mismatch in one field does not stop the other fields from being stored.
UnmarshalResult(path, respData, result) ==
    Let(JsonParse(respData), LAMBDA r :
        IF ~r.ok THEN [result |-> result, err |-> [kind |-> "SyntaxError"]]
        ELSE IF r.val.t = "null" THEN [result |-> result, err |-> NoErr]
        ELSE IF r.val.t # "obj"
        THEN [result |-> result, err |-> [kind |-> "UnmarshalTypeError"]]
        ELSE [result |-> [k \in ResultFields(path) |-> StringField(r.val, k, result[k])],
              err |-> IF \A k \in ResultFields(path) : StringFieldOk(r.val, k)
                      THEN NoErr
                      ELSE [kind |-> "UnmarshalTypeError"]])

\* Variant: the message handed to the callback leaves the body out.
JsonError_noBody(path, data, err) ==
    [msg |-> <<"Error unmarshalling '", path, "' response ", <<>>>>, err |-> err]

\* jsonError: the call errFunc(msg, err) it makes.
JsonError(path, data, err) ==
    [msg |-> <<"Error unmarshalling '", path, "' response ", data>>, err |-> err]

\* Variant: the bodies of login calls are shown like any other.
logBody_noRedaction(path, body, contentType) ==
    IF body.isNil THEN [shown |-> "(empty)", text |-> <<>>, n |-> 0]
    ELSE IF contentType = <<"application", "json">>
            \/ (Len(contentType) >= 1 /\ contentType[1] = "text")
    THEN [shown |-> "%s", text |-> body.b, n |-> 0]
    ELSE [shown |-> "(%d bytes)", text |-> <<>>, n |-> Len(body.b)]

\* logBody: what the log line shows for a body: a fixed text, the body
\* itself, or its length.  A content type is the pair of its two halves.
logBody(path, body, contentType) ==
    IF IsLoginCall(path) THEN [shown |-> "(sensitive)", text |-> <<>>, n |-> 0]
    ELSE IF body.isNil THEN [shown |-> "(empty)", text |-> <<>>, n |-> 0]
    ELSE IF contentType = <<"application", "json">>
            \/ (Len(contentType) >= 1 /\ contentType[1] = "text")
    THEN [shown |-> "%s", text |-> body.b, n |-> 0]
    ELSE [shown |-> "(%d bytes)", text |-> <<>>, n |-> Len(body.b)]

\* The path that stands for api == "" in the calls logBody("", body, ...).
NoApi == <<>>

\* c.logf(format, ...): the log line, as its format and what it shows of a body.
LogLine(format, shown) == [format |-> format, shown |-> shown]
NothingShown == [shown |-> "", text |-> <<>>, n |-> 0]

\* strconv.Quote, which %#v applies to string(e.Body).
Quote(text) == <<"\"">> \o EscapeFrom(text, 1) \o <<"\"">>

\* err.Error() as the "Login failed: %s" line of performLogin prints it: an
\* ApiError prints its body quoted, an AuthFailure its two fields, the other
\* errors a message of their own.
ErrorShown(err) ==
    IF err.kind = "ApiError" THEN [shown |-> "%#v", text |-> Quote(err.Body), n |-> 0]
    ELSE IF err.kind = "AuthFailure"
    THEN [shown |-> "%s (%s)", text |-> err.ErrorText \o <<" ", "(">> \o err.Message \o <<")">>,
          n |-> 0]
    ELSE [shown |-> err.kind, text |-> <<>>, n |-> 0]

\* json.Marshal(ld) for the loginData performLogin builds.
LoginPayload ==
    <<"{">> \o MarshalString(<<"u", "s", "e", "r", "n", "a", "m", "e">>) \o <<":">> \o MarshalString(<<"c", "u", "s", "t", "o", "m", "e", "r">>)
      \o <<",">> \o MarshalString(<<"e", "m", "a", "i", "l">>) \o <<":">> \o MarshalString(<<"e", "m", "a", "i", "l">>)
      \o <<",">> \o MarshalString(<<"p", "a", "s", "s", "w", "o", "r", "d">>) \o <<":">> \o MarshalString(<<"p", "a", "s", "s", "w", "o", "r", "d">>)
      \o <<",">> \o MarshalString(<<"f", "o", "r", "c", "e", "_", "s", "m", "_", "o", "f", "f">>) \o <<":">> \o <<"f", "a", "l", "s", "e">> \o <<"}">>

\* The payload doHttpRequest is called with: apiGetJson passes nil.
PayloadOf(path) == IF IsLoginCall(path) THEN Data(LoginPayload) ELSE NilData

\* The statuses and bodies a final response is drawn from.
ApiStatuses == Statuses \cup {199, 299, 300}
ObjectText(key, valueText) == <<"{">> \o MarshalString(key) \o <<":">> \o valueText \o <<"}">>

\* The body of an error response of the gateway.
ErrorBody(e, m) ==
    <<"{">> \o MarshalString(<<"e", "r", "r", "o", "r">>) \o <<":">> \o MarshalString(e)
      \o <<",">> \o MarshalString(<<"m", "e", "s", "s", "a", "g", "e">>) \o <<":">> \o MarshalString(m) \o <<"}">>

ApiBodies ==
    { <<>>,
      <<"n", "u", "l", "l">>,
      <<"[", "]">>,
      ObjectText(din, MarshalString(<<"a">>)),
      ObjectText(din, <<"1">>),
      ObjectText(token, MarshalString(<<"T">>)),
      SubSeq(ObjectText(din, MarshalString(<<"a">>)), 1, 8),
      ErrorBody(<<"e">>, <<"m">>) }

\* The Content-Type headers of a response: JSON, JSON with a parameter, text,
\* something else.
ContentTypes ==
    { <<"application", "json">>, <<"application", "json; charset=utf-8">>,
      <<"text", "plain">>, <<"image", "png">> }

\* What one httpDo of the call returns: a transport error, or a response with
\* a status, a content type and a body that ioutil.ReadAll will or will not
\* manage to read.
ApiResponse(status, ctype, body, readErr) ==
    [kind |-> "http", status |-> status, ctype |-> ctype, body |-> body, readErr |-> readErr]
ApiResponses ==
    {NetErr} \cup {ApiResponse(st, ct, b, re) :
                     st \in ApiStatuses, ct \in ContentTypes, b \in ApiBodies, re \in BOOLEAN}

\* The 401 and 403 responses that make doHttpRequest log in again: their
\* body is closed unread.
FirstBodies == {ErrorBody(<<"x">>, <<"y">>), <<"d", "e", "n", "i", "e", "d">>}
AuthResponses ==
    {ApiResponse(st, <<"application", "json">>, b, FALSE) : st \in {401, 403}, b \in FirstBodies}

\* The outcomes drawn for the first httpDo of a call to path: for a non-login
\* call the 401 and 403 responses are the ones above.
FirstResponses(path) ==
    IF IsLoginCall(path) THEN ApiResponses
    ELSE {r \in ApiResponses : r.kind = "neterr" \/ r.status \notin {401, 403}}
         \cup AuthResponses

\* What DoLogin returns to doHttpRequest: nil, or the error of the login.
ReloginErrors ==
    { NoErr, [kind |-> "neterr"], [kind |-> "NoAuthToken"],
      [kind |-> "AuthFailure", URL |-> ApiUrl(LoginApi),
       ErrorText |-> <<"l">>, Message |-> <<"n">>] }

\* A call of apiGetJson (an endpoint) or apiPostJson (the login, made by
\* performLogin, which has logged "Attempting login...") about to enter
\* doHttpRequest.
InitApi ==
    /\ InitAuth
    /\ opsLeft = 0
    /\ rt = RtIdle
    /\ cd = CdIdle
    /\ \E path \in EndpointApis \cup {LoginApi} :
         ax = [pc |-> "call", path |-> path,
               method |-> IF IsLoginCall(path) THEN "POST" ELSE "GET",
               payload |-> PayloadOf(path),
               first |-> NoResp, relogErr |-> NoErr,
               status |-> 0, ctype |-> <<>>, body |-> <<>>, readErr |-> FALSE,
               data |-> NilData, err |-> NoErr, result |-> ZeroResult(path),
               ret |-> NoErr, calls |-> <<>>,
               log |-> IF IsLoginCall(path)
                       THEN <<LogLine("Attempting login...", NothingShown)>>
                       ELSE <<>>]

\* The response r becomes the final response of the call.
FinalResponse(a, r) ==
    [a EXCEPT !.pc = "response", !.status = r.status, !.ctype = r.ctype,
              !.body = r.body, !.readErr = r.readErr]

\* if err != nil { return nil, err } after an httpDo.
TransportError(a) == [a EXCEPT !.pc = "failed", !.data = NilData, !.err = [kind |-> "neterr"]]

\* doHttpRequest from its first line to the return of the first httpDo with
\* r: the "Calling API" line, then the request; a 401 or 403 to a non-login
\* call closes the body and goes on to DoLogin.
DoHttpRequestFirst(r) ==
    /\ ax.pc = "call"
    /\ ax' = Let([ax EXCEPT !.log = Append(@, LogLine("Calling API: method=%s url=%s body=%s",
                                                      logBody(ax.path, ax.payload,
                                                              <<"application", "json">>)))],
                 LAMBDA a :
                   IF r.kind = "neterr" THEN TransportError(a)
                   ELSE IF ~IsLoginCall(a.path) /\ IsAuthStatus(r.status)
                   THEN [a EXCEPT !.pc = "relogin", !.first = r,
                                  !.log = Append(@, LogLine("API request returned status %d.  Attempting re-auth...",
                                                            NothingShown))]
                   ELSE FinalResponse(a, r))
    /\ UNCHANGED <<mgrVars, pc, callVars, fresh, ret, opsLeft, rt, cd>>

\* err = c.DoLogin() returns e.
DoHttpRequestRelogin(e) ==
    /\ ax.pc = "relogin"
    /\ ax' = IF ReloginFailed(IF e = NoErr THEN nil ELSE e.kind)
             THEN [ax EXCEPT !.pc = "failed", !.relogErr = e, !.data = NilData, !.err = e]
             ELSE [ax EXCEPT !.pc = "resend",
                             !.log = Append(@, LogLine("Re-auth completed.  Retrying original request.",
                                                       NothingShown))]
    /\ UNCHANGED <<mgrVars, pc, callVars, fresh, ret, opsLeft, rt, cd>>

\* The httpDo of the re-sent request returns r.
DoHttpRequestResend(r) ==
    /\ ax.pc = "resend"
    /\ ax' = IF r.kind = "neterr" THEN TransportError(ax) ELSE FinalResponse(ax, r)
    /\ UNCHANGED <<mgrVars, pc, callVars, fresh, ret, opsLeft, rt, cd>>

\* The line doHttpRequest logs about the final response it has read.
ResponseLog(a) ==
    IF StatusError(a.status) # nil
    THEN LogLine("Request failed: status=%d body=%s", logBody(NoApi, Data(a.body), a.ctype))
    ELSE LogLine("Request succeeded: status=%d body=%s", logBody(a.path, Data(a.body), a.ctype))

\* Variant: the AuthFailure is filled from the body of the first response.
DoHttpRequestReturn_firstBody ==
    /\ ax.pc = "response"
    /\ ax' = Let(Outcome(ax.path, ax.status,
                         IF ax.first # NoResp THEN ax.first.body ELSE ax.body, ax.readErr),
                 LAMBDA r :
                 [ax EXCEPT !.pc = "returned", !.data = r.data, !.err = r.err,
                            !.log = IF ax.readErr THEN @ ELSE Append(@, ResponseLog(ax))])
    /\ UNCHANGED <<mgrVars, pc, callVars, fresh, ret, opsLeft, rt, cd>>

\* doHttpRequest from ioutil.ReadAll(resp.Body) to its return.
DoHttpRequestReturn ==
    /\ ax.pc = "response"
    /\ ax' = Let(Outcome(ax.path, ax.status, ax.body, ax.readErr), LAMBDA r :
                 [ax EXCEPT !.pc = "returned", !.data = r.data, !.err = r.err,
                            !.log = IF ax.readErr THEN @ ELSE Append(@, ResponseLog(ax))])
    /\ UNCHANGED <<mgrVars, pc, callVars, fresh, ret, opsLeft, rt, cd>>

\* apiGetJson / apiPostJson after doHttpRequest has returned <<data, err>>:
\* the result, the error returned and the calls of errFunc made.
ApiJson(a) ==
    IF a.err # NoErr THEN [a EXCEPT !.pc = "done", !.ret = a.err]
    ELSE Let(UnmarshalResult(a.path, a.data.b, a.result), LAMBDA u :
             [a EXCEPT !.pc = "done", !.result = u.result, !.ret = u.err,
                       !.calls = IF u.err # NoErr
                                 THEN Append(@, JsonError(a.path, a.data.b, u.err))
                                 ELSE @])

ApiGetJson ==
    /\ ax.pc \in {"returned", "failed"} /\ ax.method = "GET"
    /\ ax' = ApiJson(ax)
    /\ UNCHANGED <<mgrVars, pc, callVars, fresh, ret, opsLeft, rt, cd>>

ApiPostJson ==
    /\ ax.pc \in {"returned", "failed"} /\ ax.method = "POST"
    /\ ax' = ApiJson(ax)
    /\ UNCHANGED <<mgrVars, pc, callVars, fresh, ret, opsLeft, rt, cd>>

\* performLogin after apiPostJson has returned: the line it logs.
PerformLoginLog ==
    /\ ax.pc = "done" /\ IsLoginCall(ax.path)
    /\ ax' = [ax EXCEPT !.pc = "logged",
                        !.log = Append(@,
                            IF ax.result[token] # <<>>
                            THEN LogLine("Login successful", NothingShown)
                            ELSE IF ax.ret # NoErr
                            THEN LogLine("Login failed: %s", ErrorShown(ax.ret))
                            ELSE LogLine("Login successful but no token returned?",
                                         NothingShown))]
    /\ UNCHANGED <<mgrVars, pc, callVars, fresh, ret, opsLeft, rt, cd>>

NextApi ==
    \/ \E r \in FirstResponses(ax.path) : DoHttpRequestFirst(r)
    \/ \E e \in ReloginErrors : DoHttpRequestRelogin(e)
    \/ \E r \in ApiResponses : DoHttpRequestResend(r)
    \/ DoHttpRequestReturn
    \/ ApiGetJson
    \/ ApiPostJson
    \/ PerformLoginLog

SpecApi == InitApi /\ [][NextApi]_vars

\* ------------------------------------------------------------ DecodedAlert
\* A Go string is a text; a DecodedAlert is nil or a map from names to texts.
NilMap == [isNil |-> TRUE, m |-> <<>>]
MakeMap == [isNil |-> FALSE, m |-> <<>>]

\* Variant: an assignment to a key the map already holds is dropped.
Put_keepFirst(m, k, x) ==
    IF k \in DOMAIN m THEN m
    ELSE [n \in (DOMAIN m) \cup {k} |-> IF n = k THEN x ELSE m[n]]

\* (*v)[k] = x
Put(m, k, x) == [n \in (DOMAIN m) \cup {k} |-> IF n = k THEN x ELSE m[n]]

\* strconv.Itoa for n >= 0.
RECURSIVE Itoa(_)
Itoa(n) == IF n < 10 THEN <<DigitChars[n + 1]>>
           ELSE Append(Itoa(n \div 10), DigitChars[(n % 10) + 1])

\* strconv.Atoi of a run of digits.
RECURSIVE Atoi(_)
Atoi(ds) == IF ds = <<>> THEN 0
            ELSE 10 * Atoi(SubSeq(ds, 1, Len(ds) - 1)) + DigitVal(ds[Len(ds)])

\* The text without its trailing "0" characters.
RECURSIVE TrimZeros(_)
TrimZeros(ds) == IF ds # <<>> /\ ds[Len(ds)] = "0"
                 THEN TrimZeros(SubSeq(ds, 1, Len(ds) - 1))
                 ELSE ds

\* The index of the first "." of the text, or Len + 1.
RECURSIVE PointFrom(_, _)
PointFrom(ds, i) == IF i > Len(ds) \/ ds[i] = "." THEN i ELSE PointFrom(ds, i + 1)

\* The float64 a number literal decodes to, as its integer part and the
\* digits of its fraction (numbers are short enough to be exact).
ParseFloat(lit) ==
    [int |-> Atoi(SubSeq(lit, 1, PointFrom(lit, 1) - 1)),
     frac |-> TrimZeros(SubSeq(lit, PointFrom(lit, 1) + 1, Len(lit)))]

\* strconv.FormatFloat(fv, 'f', -1, 64)
FormatFloat(fv) ==
    Itoa(fv.int) \o (IF fv.frac = <<>> THEN <<>> ELSE <<".">> \o fv.frac)

\* fmt's %v of a value decoded into interface{}.
GoValue(val) ==
    CASE val.t = "null" -> <<"<nil>">>
      [] val.t = "str" -> val.v
      [] val.t = "num" -> FormatFloat(ParseFloat(val.v))
      [] val.t = "bool" -> val.v
      [] val.t = "arr" -> <<"[", "]">>
      [] val.t = "obj" -> <<"map[", "]">>

\* json.Unmarshal(data, &strvalue)
UnmarshalString(data, strvalue) ==
    Let(JsonParse(data), LAMBDA r :
        IF ~r.ok THEN [v |-> strvalue, err |-> [kind |-> "SyntaxError"]]
        ELSE IF r.val.t = "str" THEN [v |-> r.val.v, err |-> NoErr]
        ELSE IF r.val.t = "null" THEN [v |-> strvalue, err |-> NoErr]
        ELSE [v |-> strvalue, err |-> [kind |-> "UnmarshalTypeError"]])

name == <<"n", "a", "m", "e">>
value == <<"v", "a", "l", "u", "e">>
units == <<"u", "n", "i", "t", "s">>

\* One element of the array decoded into an entry: Name is a string field,
\* Value and Units take any JSON value.
Entry(val) ==
    IF val.t = "obj"
    THEN [Name |-> StringField(val, name, <<>>),
          Value |-> Field(val, value), Units |-> Field(val, units)]
    ELSE [Name |-> <<>>, Value |-> JsonNil, Units |-> JsonNil]

EntryOk(val) ==
    \/ val.t = "null"
    \/ val.t = "obj" /\ StringFieldOk(val, name)

\* json.Unmarshal([]byte(strvalue), &entries)
UnmarshalEntries(text) ==
    Let(JsonParse(text), LAMBDA r :
        IF ~r.ok THEN [entries |-> <<>>, err |-> [kind |-> "SyntaxError"]]
        ELSE IF r.val.t = "null" THEN [entries |-> <<>>, err |-> NoErr]
        ELSE IF r.val.t # "arr"
        THEN [entries |-> <<>>, err |-> [kind |-> "UnmarshalTypeError"]]
        ELSE [entries |-> [k \in 1..Len(r.val.v) |-> Entry(r.val.v[k])],
              err |-> IF \A k \in 1..Len(r.val.v) : EntryOk(r.val.v[k])
                      THEN NoErr
                      ELSE [kind |-> "UnmarshalTypeError"]])

\* Variant: a value of another type stores the empty text.
ValueText_otherEmpty(e) ==
    IF e.Value.t = "num" THEN FormatFloat(ParseFloat(e.Value.v))
    ELSE IF e.Value.t = "str" THEN e.Value.v
    ELSE <<>>

\* The text stored for an entry before its units: a JSON number arrives as
\* a float64 and a JSON string as a string; the int and []byte cases are
\* never met by a decoded value.
ValueText(e) ==
    IF e.Value.t = "num" THEN FormatFloat(ParseFloat(e.Value.v))
    ELSE IF e.Value.t = "str" THEN e.Value.v
    ELSE <<"unrecognized type ", "{">> \o e.Name \o <<" ">> \o GoValue(e.Value)
            \o <<" ">> \o GoValue(e.Units) \o <<"}">>

\* Variant: the units are appended without the space.
WithUnits_noSpace(text, e) ==
    IF e.Units.t = "str" /\ text # <<>> /\ e.Units.v # <<>>
    THEN text \o e.Units.v
    ELSE text

\* if uv, ok := e.Units.(string); ok && (*v)[e.Name] != "" && uv != ""
WithUnits(text, e) ==
    IF e.Units.t = "str" /\ text # <<>> /\ e.Units.v # <<>>
    THEN text \o <<" ">> \o e.Units.v
    ELSE text

\* for _, e := range entries
RECURSIVE AlertLoop(_, _, _)
AlertLoop(entries, k, m) ==
    IF k > Len(entries) THEN m
    ELSE Let(Put(m, entries[k].Name, WithUnits(ValueText(entries[k]), entries[k])),
             LAMBDA m2 : AlertLoop(entries, k + 1, m2))

\* Variant: the map is replaced before the inner text is decoded.
DecodedAlertUnmarshalJSON_early(v, data) ==
    Let(UnmarshalString(data, <<>>), LAMBDA str :
        IF str.err # NoErr
        THEN [v |-> v, err |-> [kind |-> "into string", cause |-> str.err]]
        ELSE IF str.v = <<>> THEN [v |-> v, err |-> NoErr]
        ELSE Let(UnmarshalEntries(str.v), LAMBDA dec :
                 IF dec.err # NoErr
                 THEN [v |-> MakeMap, err |-> [kind |-> "grid alert", cause |-> dec.err]]
                 ELSE [v |-> [isNil |-> FALSE, m |-> AlertLoop(dec.entries, 1, <<>>)],
                       err |-> NoErr]))

\* Variant: an empty string is decoded like any other.
DecodedAlertUnmarshalJSON_noEmpty(v, data) ==
    Let(UnmarshalString(data, <<>>), LAMBDA str :
        IF str.err # NoErr
        THEN [v |-> v, err |-> [kind |-> "into string", cause |-> str.err]]
        ELSE Let(UnmarshalEntries(str.v), LAMBDA dec :
                 IF dec.err # NoErr
                 THEN [v |-> v, err |-> [kind |-> "grid alert", cause |-> dec.err]]
                 ELSE [v |-> [isNil |-> FALSE, m |-> AlertLoop(dec.entries, 1, <<>>)],
                       err |-> NoErr]))

\* (v *DecodedAlert) UnmarshalJSON(data): the map and the error afterwards.
DecodedAlertUnmarshalJSON(v, data) ==
    Let(UnmarshalString(data, <<>>), LAMBDA str :
        IF str.err # NoErr
        THEN [v |-> v, err |-> [kind |-> "into string", cause |-> str.err]]
        ELSE IF str.v = <<>> THEN [v |-> v, err |-> NoErr]
        ELSE Let(UnmarshalEntries(str.v), LAMBDA dec :
                 IF dec.err # NoErr
                 THEN [v |-> v, err |-> [kind |-> "grid alert", cause |-> dec.err]]
                 ELSE [v |-> [isNil |-> FALSE, m |-> AlertLoop(dec.entries, 1, <<>>)],
                       err |-> NoErr]))

\* The alerts decoded: arrays of at most MaxEntries entries, written the way
\* the gateway writes them, and texts that are no such array; each taken as
\* the content of a complete JSON string, as a string literal cut short, or
\* bare.  An entry records the JSON texts of its value and units (empty
\* when the key is left out) next to the texts they stand for.
AlertNames == {<<"a">>, <<"b">>}
AlertValues ==
    { [value |-> MarshalString(<<"x">>), shown |-> <<"x">>, units |-> <<>>, unit |-> <<>>],
      [value |-> MarshalString(<<"x">>), shown |-> <<"x">>,
       units |-> MarshalString(<<"V">>), unit |-> <<"V">>],
      [value |-> MarshalString(<<>>), shown |-> <<>>,
       units |-> MarshalString(<<"V">>), unit |-> <<"V">>],
      [value |-> <<"1", "8", "4">>, shown |-> <<"1", "8", "4">>,
       units |-> MarshalString(<<"V", "r", "m", "s">>), unit |-> <<"V", "r", "m", "s">>],
      [value |-> <<"2", ".", "5", "0">>, shown |-> <<"2", ".", "5">>,
       units |-> MarshalString(<<>>), unit |-> <<>>],
      [value |-> <<"1", "0">>, shown |-> <<"1", "0">>, units |-> <<>>, unit |-> <<>>] }
NullText == <<"n", "u", "l", "l">>
\* Values that are neither a number nor a string: a boolean, null, a key
\* left out, an object and an array, with the text %v prints for the value
\* and for the units.
OtherValues ==
    { [value |-> <<"t", "r", "u", "e">>, shown |-> <<"true">>,
       units |-> <<>>, unit |-> <<>>, unitShown |-> <<"<nil>">>],
      [value |-> NullText, shown |-> <<"<nil>">>,
       units |-> NullText, unit |-> <<>>, unitShown |-> <<"<nil>">>],
      [value |-> <<>>, shown |-> <<"<nil>">>,
       units |-> MarshalString(<<"V">>), unit |-> <<"V">>, unitShown |-> <<"V">>],
      [value |-> <<"{", "}">>, shown |-> <<"map[", "]">>,
       units |-> <<>>, unit |-> <<>>, unitShown |-> <<"<nil>">>],
      [value |-> <<"[", "]">>, shown |-> <<"[", "]">>,
       units |-> MarshalString(<<>>), unit |-> <<>>, unitShown |-> <<>>] }
AlertEntries ==
    { [Name |-> n, value |-> x.value, shown |-> x.shown, units |-> x.units, unit |-> x.unit] :
        n \in AlertNames, x \in AlertValues }
    \cup
    { [Name |-> n, value |-> x.value,
       shown |-> <<"unrecognized type ", "{">> \o n \o <<" ">> \o x.shown
                    \o <<" ">> \o x.unitShown \o <<"}">>,
       units |-> x.units, unit |-> x.unit] :
        n \in AlertNames, x \in OtherValues }
AlertEntrySeqs == UNION {[1..n -> AlertEntries] : n \in 0..MaxEntries}

EntryText(e) ==
    <<"{">> \o MarshalString(name) \o <<":">> \o MarshalString(e.Name)
        \o (IF e.value = <<>> THEN <<>> ELSE <<",">> \o MarshalString(value) \o <<":">> \o e.value)
        \o (IF e.units = <<>> THEN <<>> ELSE <<",">> \o MarshalString(units) \o <<":">> \o e.units)
        \o <<"}">>

RECURSIVE JoinEntries(_, _)
JoinEntries(es, k) ==
    IF k > Len(es) THEN <<>>
    ELSE (IF k > 1 THEN <<",">> ELSE <<>>) \o EntryText(es[k]) \o JoinEntries(es, k + 1)

ArrayText(es) == <<"[">> \o JoinEntries(es, 1) \o <<"]">>

OtherTexts ==
    { <<>>,
      NullText,
      <<"{", "}">>,
      <<"[", "1", "]">>,
      <<"[">> \o ObjectText(name, <<"1">>) \o <<"]">>,
      <<"[">> \o ObjectText(name, MarshalString(<<"a">>)) }
AlertInners ==
    {[kind |-> "entries", entries |-> es, text |-> ArrayText(es)] : es \in AlertEntrySeqs}
    \cup {[kind |-> "other", entries |-> <<>>, text |-> t] : t \in OtherTexts}
AlertForms == {"string", "cut", "bare"}

AlertData(form, text) ==
    CASE form = "string" -> MarshalString(text)
      [] form = "cut" -> SubSeq(MarshalString(text), 1, (Len(MarshalString(text)) + 1) \div 2)
      [] form = "bare" -> text

\* a := DecodedAlert{} in the test, the zero value of the field of a new
\* GridFault otherwise.
AlertReceivers == {NilMap, MakeMap}

InitAlert ==
    \E form \in AlertForms, inner \in AlertInners, v \in AlertReceivers :
        cd = [pc |-> "call", op |-> "DecodedAlert", form |-> form, inner |-> inner,
              data |-> AlertData(form, inner.text), v0 |-> v, v |-> v, err |-> NoErr]

\* a.UnmarshalJSON(data)
AlertUnmarshal ==
    /\ cd.pc = "call" /\ cd.op = "DecodedAlert"
    /\ cd' = Let(DecodedAlertUnmarshalJSON(cd.v, cd.data), LAMBDA r :
                 [cd EXCEPT !.pc = "done", !.v = r.v, !.err = r.err])
    /\ UNCHANGED <<mgrVars, pc, callVars, fresh, ret, opsLeft, rt, ax>>

\* ----------------------------------------------------------------- Duration
\* A time.Duration is counted here in milliseconds, the smallest unit kept
\* of time.ParseDuration's unit table.
Millisecond == 1
Second == 1000 * Millisecond
Minute == 60 * Second
Hour == 60 * Minute

\* strings.Replace(string(p), `"`, ``, -1)
StripQuotes(p) == SelectSeq(p, LAMBDA ch : ch # "\"")

\* unitMap[u], 0 for a unit it does not hold.
UnitOf(u) ==
    CASE u = <<"m", "s">> -> Millisecond
      [] u = <<"s">> -> Second
      [] u = <<"m">> -> Minute
      [] u = <<"h">> -> Hour
      [] OTHER -> 0

RECURSIVE Pow10(_)
Pow10(n) == IF n = 0 THEN 1 ELSE 10 * Pow10(n - 1)

DurFail == [ok |-> FALSE, d |-> 0]

\* One term of a duration string from s[i] on: [0-9]*(\.[0-9]*)? with a
\* digit on one side at least, then a unit that runs up to the next digit or
\* point; the index after the term and its value.
TermAt(s, i) ==
    Let(SkipDigits(s, i), LAMBDA j :
    Let(IF j <= Len(s) /\ s[j] = "." THEN SkipDigits(s, j + 1) ELSE j, LAMBDA k :
    Let(NextIn(s, k, Digits \cup {"."}), LAMBDA e :
    Let(UnitOf(SubSeq(s, k, e - 1)), LAMBDA unit :
        IF (j = i /\ k <= j + 1) \/ e = k \/ unit = 0
        THEN [ok |-> FALSE, next |-> 0, val |-> 0]
        ELSE [ok |-> TRUE, next |-> e,
              val |-> Atoi(SubSeq(s, i, j - 1)) * unit
                      + (IF k > j + 1
                         THEN (Atoi(SubSeq(s, j + 1, k - 1)) * unit) \div Pow10(k - j - 1)
                         ELSE 0)]))))

\* The loop of time.ParseDuration over the terms of s from s[i] on, d being
\* the sum so far.
RECURSIVE ParseTerms(_, _, _)
ParseTerms(s, i, d) ==
    IF i > Len(s) THEN [ok |-> TRUE, d |-> d]
    ELSE Let(TermAt(s, i), LAMBDA t :
             IF ~t.ok THEN DurFail
             ELSE Let(d + t.val, LAMBDA d2 : ParseTerms(s, t.next, d2)))

\* time.ParseDuration(s)
ParseDuration(s) ==
    Let(IF s # <<>> /\ s[1] \in {"-", "+"} THEN SubSeq(s, 2, Len(s)) ELSE s, LAMBDA body :
        IF body = <<"0">> THEN [ok |-> TRUE, d |-> 0]
        ELSE IF body = <<>> THEN DurFail
        ELSE Let(ParseTerms(body, 1, 0), LAMBDA r :
                 IF r.ok /\ s[1] = "-" THEN [ok |-> TRUE, d |-> 0 - r.d] ELSE r))

\* The last prec digits of v, most significant first.
RECURSIVE PadDigits(_, _)
PadDigits(v, prec) ==
    IF prec = 0 THEN <<>>
    ELSE Append(PadDigits(v \div 10, prec - 1), DigitChars[(v % 10) + 1])

\* fmtFrac: the fraction v of prec digits without trailing zeros, after a
\* point, or nothing when it is zero.
FmtFrac(v, prec) ==
    IF TrimZeros(PadDigits(v, prec)) = <<>> THEN <<>>
    ELSE <<".">> \o TrimZeros(PadDigits(v, prec))

\* Variant: the fraction of the seconds is left out.
DurationString_noFrac(d) ==
    LET u == IF d < 0 THEN 0 - d ELSE d
        secs == u \div Second
        mins == secs \div 60
        text == IF u = 0 THEN <<"0", "s">>
                ELSE IF u < Second THEN Itoa(u) \o <<"m", "s">>
                ELSE (IF mins \div 60 > 0 THEN Itoa(mins \div 60) \o <<"h">> ELSE <<>>)
                     \o (IF mins > 0 THEN Itoa(mins % 60) \o <<"m">> ELSE <<>>)
                     \o Itoa(secs % 60) \o <<"s">>
    IN  IF d < 0 THEN <<"-">> \o text ELSE text

\* (d Duration) String(): "0s", below one second the count of the smaller
\* unit, and [h]m]s with the fraction of the seconds from one second on.
DurationString(d) ==
    LET u == IF d < 0 THEN 0 - d ELSE d
        secs == u \div Second
        mins == secs \div 60
        text == IF u = 0 THEN <<"0", "s">>
                ELSE IF u < Second THEN Itoa(u) \o <<"m", "s">>
                ELSE (IF mins \div 60 > 0 THEN Itoa(mins \div 60) \o <<"h">> ELSE <<>>)
                     \o (IF mins > 0 THEN Itoa(mins % 60) \o <<"m">> ELSE <<>>)
                     \o Itoa(secs % 60) \o FmtFrac(u % Second, 3) \o <<"s">>
    IN  IF d < 0 THEN <<"-">> \o text ELSE text

\* (v *Duration) UnmarshalJSON(p): the value and whether an error is returned.
DurationUnmarshalJSON(v, p) ==
    Let(ParseDuration(StripQuotes(p)), LAMBDA r :
        IF r.ok THEN [v |-> r.d, err |-> NoErr]
        ELSE [v |-> v, err |-> [kind |-> "invalid duration"]])

\* (v *Duration) MarshalJSON()
DurationMarshalJSON(v) == MarshalString(DurationString(v))

\* The duration strings decoded: an optional sign and at most MaxTerms terms,
\* quoted as in a JSON document or bare.
DurationTerms ==
    { <<"1", "h">>, <<"9", "0", "m">>, <<"4", "5", ".", "6", "7", "s">>,
      <<".", "5", "m">>, <<"5", "0", "0", "m", "s">>, <<"0">>, <<"1", "x">>, <<"s">> }
DurationSigns == {<<>>, <<"-">>, <<"+">>}

RECURSIVE Concat(_, _)
Concat(ts, k) == IF k > Len(ts) THEN <<>> ELSE ts[k] \o Concat(ts, k + 1)

DurationTexts ==
    {sg \o Concat(ts, 1) :
        sg \in DurationSigns, ts \in UNION {[1..n -> DurationTerms] : n \in 0..MaxTerms}}

InitDuration ==
    \E text \in DurationTexts, quoted \in BOOLEAN :
        cd = [pc |-> "call", op |-> "Duration",
              data |-> IF quoted THEN MarshalString(text) ELSE text,
              v0 |-> 0, v |-> 0, err |-> NoErr,
              out |-> <<>>, v2 |-> 0, err2 |-> NoErr]

\* d.UnmarshalJSON(data)
DurationUnmarshal ==
    /\ cd.pc = "call" /\ cd.op = "Duration"
    /\ cd' = Let(DurationUnmarshalJSON(cd.v, cd.data), LAMBDA r :
                 [cd EXCEPT !.pc = IF r.err = NoErr THEN "parsed" ELSE "done",
                            !.v = r.v, !.err = r.err])
    /\ UNCHANGED <<mgrVars, pc, callVars, fresh, ret, opsLeft, rt, ax>>

\* out, _ := d.MarshalJSON()
DurationMarshal ==
    /\ cd.pc = "parsed" /\ cd.op = "Duration"
    /\ cd' = [cd EXCEPT !.pc = "marshalled", !.out = DurationMarshalJSON(cd.v)]
    /\ UNCHANGED <<mgrVars, pc, callVars, fresh, ret, opsLeft, rt, ax>>

\* d2.UnmarshalJSON(out) on a new Duration
DurationUnmarshalAgain ==
    /\ cd.pc = "marshalled" /\ cd.op = "Duration"
    /\ cd' = Let(DurationUnmarshalJSON(0, cd.out), LAMBDA r :
                 [cd EXCEPT !.pc = "done", !.v2 = r.v, !.err2 = r.err])
    /\ UNCHANGED <<mgrVars, pc, callVars, fresh, ret, opsLeft, rt, ax>>

\* --------------------------------------------------------------- NonIsoTime
\* An instant is the count of seconds since 1970-01-01 00:00:00 UTC and the
\* digits of the fraction of a second.
ZeroTime == [sec |-> 0, frac |-> <<>>]

IsLeap(y) == (y % 4 = 0 /\ y % 100 # 0) \/ y % 400 = 0
DaysIn(m, y) ==
    IF m = 2 THEN (IF IsLeap(y) THEN 29 ELSE 28)
    ELSE IF m \in {4, 6, 9, 11} THEN 30 ELSE 31

\* Days from 1970-01-01 to the day d of month m of year y.
DaysFromCivil(y, m, d) ==
    LET yy == IF m <= 2 THEN y - 1 ELSE y
        era == yy \div 400
        yoe == yy - era * 400
        doy == (153 * (IF m > 2 THEN m - 3 ELSE m + 9) + 2) \div 5 + d - 1
        doe == yoe * 365 + yoe \div 4 - yoe \div 100 + doy
    IN  era * 146097 + doe - 719468

\* time.Date(...).Unix() for a zone offset of off minutes east of UTC.
Unix(y, m, d, hh, mm, ss, off) ==
    DaysFromCivil(y, m, d) * 86400 + hh * 3600 + mm * 60 + ss - off * 60

TimeFail == [ok |-> FALSE, t |-> ZeroTime]

\* Variant: the hour must be written with two digits and no fraction of a
\* second is taken.
ParseNonIsoTime_strict(val) ==
    LET n == Len(val)
        IsD(i) == i <= n /\ val[i] \in Digits
        Lit(i, ch) == i <= n /\ val[i] = ch
        Num(i, j) == Atoi(SubSeq(val, i, j))
        shape == /\ n = 25
                 /\ \A i \in {1, 2, 3, 4, 6, 7, 9, 10, 12, 13, 15, 16, 18, 19, 22, 23, 24, 25} : IsD(i)
                 /\ Lit(5, "-") /\ Lit(8, "-") /\ Lit(11, " ")
                 /\ Lit(14, ":") /\ Lit(17, ":") /\ Lit(20, " ")
                 /\ val[21] \in {"+", "-"}
    IN  IF /\ shape
           /\ Num(6, 7) \in 1..12
           /\ Num(9, 10) \in 1..DaysIn(Num(6, 7), Num(1, 4))
           /\ Num(12, 13) < 24 /\ Num(15, 16) < 60 /\ Num(18, 19) < 60
        THEN [ok |-> TRUE,
              t |-> [sec |-> Unix(Num(1, 4), Num(6, 7), Num(9, 10),
                                  Num(12, 13), Num(15, 16), Num(18, 19),
                                  (IF val[21] = "-" THEN -1 ELSE 1)
                                      * (Num(22, 23) * 60 + Num(24, 25))),
                     frac |-> <<>>]]
        ELSE TimeFail

\* time.Parse(nonIsoTimeFormat, val): four digits of year, "-", two of month,
\* "-", two of day, " ", one or two digits of hour, ":", two of minute, ":",
\* two of second, then, though the layout has none, an optional point and
\* digits of a fraction of a second, " ", a sign and four digits of zone
\* offset, and nothing more; every field within its range.
ParseNonIsoTime(val) ==
    LET n == Len(val)
        IsD(i) == i <= n /\ val[i] \in Digits
        Lit(i, ch) == i <= n /\ val[i] = ch
        Num(i, j) == Atoi(SubSeq(val, i, j))
        h == IF IsD(13) THEN 13 ELSE 12
        f == IF Lit(h + 7, ".") /\ IsD(h + 8) THEN SkipDigits(val, h + 8) - 1 ELSE h + 6
        shape == /\ \A i \in {1, 2, 3, 4, 6, 7, 9, 10, 12} : IsD(i)
                 /\ Lit(5, "-") /\ Lit(8, "-") /\ Lit(11, " ")
                 /\ Lit(h + 1, ":") /\ IsD(h + 2) /\ IsD(h + 3)
                 /\ Lit(h + 4, ":") /\ IsD(h + 5) /\ IsD(h + 6)
                 /\ Lit(f + 1, " ")
                 /\ n = f + 6
                 /\ val[f + 2] \in {"+", "-"}
                 /\ \A i \in (f + 3)..(f + 6) : IsD(i)
    IN  IF /\ shape
           /\ Num(6, 7) \in 1..12
           /\ Num(9, 10) \in 1..DaysIn(Num(6, 7), Num(1, 4))
           /\ Num(12, h) < 24 /\ Num(h + 2, h + 3) < 60 /\ Num(h + 5, h + 6) < 60
        THEN [ok |-> TRUE,
              t |-> [sec |-> Unix(Num(1, 4), Num(6, 7), Num(9, 10),
                                  Num(12, h), Num(h + 2, h + 3), Num(h + 5, h + 6),
                                  (IF val[f + 2] = "-" THEN -1 ELSE 1)
                                      * (Num(f + 3, f + 4) * 60 + Num(f + 5, f + 6))),
                     frac |-> TrimZeros(SubSeq(val, h + 8, f))]]
        ELSE TimeFail

\* (v *NonIsoTime) UnmarshalJSON(p)
NonIsoTimeUnmarshalJSON(v, p) ==
    Let(ParseNonIsoTime(StripQuotes(p)), LAMBDA r :
        IF r.ok THEN [v |-> r.t, err |-> NoErr]
        ELSE [v |-> v, err |-> [kind |-> "ParseError"]])

\* The time strings decoded: the fields of a date, a time of day and a zone,
\* written with a one- or two-digit hour, with or without a fraction of a
\* second, with " " or "T" after the date, quoted as in a JSON document or
\* bare.
TimeDates == {[m |-> 1, d |-> 2], [m |-> 2, d |-> 30], [m |-> 13, d |-> 2]}
TimeZones ==
    { [text |-> <<" ", "-", "0", "7", "0", "0">>, off |-> -420, ok |-> TRUE],
      [text |-> <<" ", "+", "0", "0", "0", "0">>, off |-> 0, ok |-> TRUE],
      [text |-> <<"Z">>, off |-> 0, ok |-> FALSE],
      [text |-> <<>>, off |-> 0, ok |-> FALSE] }
TimeFields ==
    [y : {2023}, date : TimeDates, hh : {3, 24}, pad : BOOLEAN, mm : {4},
     ss : {5, 60}, frac : {<<>>, <<"5", "0">>}, sep : {" ", "T"}, zone : TimeZones]

TimeText(x) ==
    PadDigits(x.y, 4) \o <<"-">> \o PadDigits(x.date.m, 2) \o <<"-">> \o PadDigits(x.date.d, 2)
        \o <<x.sep>> \o (IF x.pad THEN PadDigits(x.hh, 2) ELSE Itoa(x.hh))
        \o <<":">> \o PadDigits(x.mm, 2) \o <<":">> \o PadDigits(x.ss, 2)
        \o (IF x.frac = <<>> THEN <<>> ELSE <<".">> \o x.frac)
        \o x.zone.text

InitTime ==
    \E x \in TimeFields, quoted \in BOOLEAN :
        cd = [pc |-> "call", op |-> "NonIsoTime", fields |-> x,
              data |-> IF quoted THEN MarshalString(TimeText(x)) ELSE TimeText(x),
              v0 |-> ZeroTime, v |-> ZeroTime, err |-> NoErr]

\* t.UnmarshalJSON(data)
NonIsoTimeUnmarshal ==
    /\ cd.pc = "call" /\ cd.op = "NonIsoTime"
    /\ cd' = Let(NonIsoTimeUnmarshalJSON(cd.v, cd.data), LAMBDA r :
                 [cd EXCEPT !.pc = "done", !.v = r.v, !.err = r.err])
    /\ UNCHANGED <<mgrVars, pc, callVars, fresh, ret, opsLeft, rt, ax>>

InitCodec ==
    /\ InitAuth
    /\ opsLeft = 0
    /\ rt = RtIdle
    /\ ax = AxIdle
    /\ (InitAlert \/ InitDuration \/ InitTime)

NextCodec ==
    \/ AlertUnmarshal
    \/ DurationUnmarshal
    \/ DurationMarshal
    \/ DurationUnmarshalAgain
    \/ NonIsoTimeUnmarshal

SpecCodec == InitCodec /\ [][NextCodec]_vars

\* ================================================================== claims

\* C1: a non-login call makes at most one DoLogin and at most two httpDo
\* calls; a first response of 401 or 403 makes exactly one DoLogin, followed
\* by exactly one re-send when that login succeeded (none when it failed);
\* a re-sent request answered 401 or 403 ends the call with an AuthFailure,
\* still after one DoLogin and two requests.
C1_OneReloginOneResend ==
    \A c \in Callers :
        /\ nDoLogin[c] <= 1
        /\ nHttpDo[c] <= 2
        /\ (pc[c] = "idle" /\ ret[c].op = "Endpoint") =>
             /\ (st1[c].kind = "http" /\ st1[c].status \in {401, 403}) =>
                   /\ nDoLogin[c] = 1
                   /\ nHttpDo[c] = IF relog[c][2] = nil THEN 2 ELSE 1
             /\ ~(st1[c].kind = "http" /\ st1[c].status \in {401, 403}) =>
                   /\ nDoLogin[c] = 0
                   /\ nHttpDo[c] = 1
             /\ (st2[c].kind = "http" /\ st2[c].status \in {401, 403}) =>
                   /\ ret[c].err = "AuthFailure"
                   /\ nDoLogin[c] = 1
                   /\ nHttpDo[c] = 2

C1_Witness ==
    \E c \in Callers :
        /\ pc[c] = "idle" /\ ret[c].op = "Endpoint" /\ ret[c].err = "AuthFailure"
        /\ st1[c].kind = "http" /\ st1[c].status = 403
        /\ st2[c].kind = "http" /\ st2[c].status = 401
        /\ nDoLogin[c] = 1 /\ nHttpDo[c] = 2

\* C2: the first request of a non-login call carries the token the
\* coordinator handed out as its only cookie when that token is non-empty and
\* no cookie when it is empty; the login request carries no cookie.
C2_CookieFollowsToken ==
    /\ \A c \in Callers :
         pc[c] = "req1" =>
            /\ ~(Len(req[c].api) >= 2 /\ req[c].api[1] = "login")
            /\ req[c].cookies = IF tok[c] # NoToken THEN <<tok[c]>> ELSE <<>>
    /\ mpc = "login" => (mreq.api = LoginApi /\ mreq.cookies = <<>>)

C2_Witness ==
    \E c \in Callers :
        pc[c] = "req1" /\ tok[c] \in Tokens /\ req[c].cookies = <<tok[c]>>

\* C3: when SetAuthToken(t) has returned, the coordinator no longer holds the
\* caller's set-token message and the last value the caller received is t; a
\* GetAuthToken the same caller makes next, with no mutation applied in
\* between, returns t.
C3_SetTokenVisible ==
    \A c \in Callers :
        /\ (pc[c] = "idle" /\ ret[c].op = "SetAuthToken") =>
              (tok[c] = arg[c] /\ mmsg.from # c)
        /\ (pc[c] = "idle" /\ ret[c].op = "GetAuthToken" /\ ret[c].afterSet) =>
              ret[c].val = arg[c]

C3_Witness ==
    \E c \in Callers :
        /\ pc[c] = "idle" /\ ret[c].op = "GetAuthToken" /\ ret[c].afterSet
        /\ ret[c].val = arg[c] /\ arg[c] \in Tokens

\* C4 (as claimed): when the login made for a DoLogin or checkLogin message
\* fails, the token after the message equals the token before it.
C4_FailedLoginKeepsToken ==
    (mpc = "reply" /\ mexch > 0 /\ merr # nil) => authToken = mbefore

\* C4 (amended): when the login made for a DoLogin or checkLogin message
\* fails, the token after the message is empty; for checkLogin that is the
\* token before the message.
C4_FailedLoginClearsToken ==
    (mpc = "reply" /\ mexch > 0 /\ merr # nil) =>
        /\ authToken = NoToken
        /\ mmsg.action = cmd_CHECK_LOGIN => authToken = mbefore

C4_Witness ==
    /\ mpc = "reply" /\ mexch > 0 /\ merr # nil
    /\ mmsg.action = cmd_DO_LOGIN /\ mbefore \in Tokens /\ authToken = NoToken

\* C5: a DoLogin message is answered after exactly one login exchange that
\* posted the client's credentials to login/Basic, whatever the token was,
\* and when the login succeeded the token is the one the login returned.
C5_DoLoginAlwaysLogsIn ==
    (mpc = "reply" /\ mmsg.action = cmd_DO_LOGIN) =>
        /\ mexch = 1
        /\ mreq.api = LoginApi
        /\ mreq.payload = <<gatewayLoginEmail, gatewayLoginPassword>>
        /\ merr = nil =>
              /\ mresp.kind = "http"
              /\ mresp.token # NoToken
              /\ authToken = mresp.token

C5_Witness ==
    /\ mpc = "reply" /\ mmsg.action = cmd_DO_LOGIN /\ merr = nil
    /\ mbefore \in Tokens /\ authToken \in Tokens /\ authToken # mbefore

\* C6: a checkLogin message received with a non-empty token is answered nil
\* without any login exchange and with the token unchanged; received with an
\* empty token it is answered after exactly one login exchange, with an error
\* only if that exchange brought no token.
C6_CheckLoginOnlyWhenEmpty ==
    (mpc = "reply" /\ mmsg.action = cmd_CHECK_LOGIN) =>
        IF mbefore # NoToken
        THEN mexch = 0 /\ authToken = mbefore /\ merr = nil
        ELSE /\ mexch = 1
             /\ merr # nil =>
                   \/ mresp.kind = "neterr"
                   \/ mresp.status < 200
                   \/ mresp.status >= 300
                   \/ mresp.token = NoToken

C6_Witness ==
    /\ mpc = "reply" /\ mmsg.action = cmd_CHECK_LOGIN
    /\ mbefore \in Tokens /\ mexch = 0 /\ merr = nil /\ authToken = mbefore

\* C7 (as claimed): the coordinator never hands out the token while a caller
\* is blocked sending a mutation message on auth_ch.
C7_NoTokenWhileMutationPending ==
    [][(mpc = "sel2" /\ mpc' = "sel1") => \A d \in Callers : pc[d] \notin SendPcs]_vars

\* C8: with one caller making endpoint calls against a server that grants
\* every login and never answers 401 or 403 to a request carrying a token, a
\* login exchange starts only while the token is empty, the token never
\* changes once it is non-empty, and every request in flight while a token
\* is held carries exactly that token.
C8_OneLoginTokenReused ==
    [][/\ (mpc = "doAuthMsg" /\ mpc' = "login") => authToken = NoToken
       /\ authToken # NoToken => authToken' = authToken
       /\ \A c \in SeqCallers :
            (pc'[c] \in {"req1", "req2"} /\ authToken' # NoToken) =>
                req'[c].cookies = <<authToken'>>]_vars

C8_Witness ==
    \E c \in SeqCallers :
        /\ opsLeft = 0 /\ pc[c] = "idle"
        /\ ret[c].op = "Endpoint" /\ ret[c].err = nil
        /\ nDoLogin[c] = 0 /\ authToken \in Tokens /\ req[c].cookies = <<authToken>>

\* C9 (as claimed): the re-sent request carries as its only cookie the token
\* returned by the re-login this call performed.
C9_ResendCarriesReloginToken ==
    \A c \in Callers : pc[c] = "req2" => req[c].cookies = <<relog[c][1]>>

\* C9 (amended): the re-sent request carries exactly one cookie, the value
\* the coordinator handed this call when it asked for the token after its
\* re-login; that is the token returned by the re-login whenever no other
\* mutation was applied between the reply to the re-login and that read.
C9_ResendCarriesCurrentToken ==
    \A c \in Callers :
        pc[c] = "req2" =>
            /\ Len(req[c].cookies) = 1
            /\ req[c].cookies[1] = tok[c]
            /\ fresh[c] => req[c].cookies[1] = relog[c][1]

C9_Witness ==
    \E c \in Callers :
        /\ pc[c] = "req2" /\ fresh[c] /\ relog[c][1] \in Tokens
        /\ req[c].cookies = <<relog[c][1]>>
        /\ tok[c] # NoToken

\* C10 (as claimed): with timeout > interval > 0, a first attempt that fails
\* with a transport error is followed by a further attempt, whatever the
\* time the failed attempt took.
C10_RetriesAtLeastOnce ==
    (rt.pc = "done" /\ rt.timeout > rt.interval /\ rt.interval > 0 /\ rt.firstErr) =>
        rt.attempts >= 2

\* C10 (amended): with timeout > interval > 0, a first attempt that fails
\* with a transport error after less than the timeout is followed by a
\* further attempt.
C10_RetriesWithinTimeout ==
    (/\ rt.pc = "done" /\ rt.timeout > rt.interval /\ rt.interval > 0
     /\ rt.firstErr /\ rt.firstDur < rt.timeout) =>
        rt.attempts >= 2

C10_Witness ==
    /\ rt.pc = "done" /\ rt.timeout > rt.interval /\ rt.interval > 0
    /\ rt.firstErr /\ rt.firstDur < rt.timeout /\ rt.firstDur > rt.interval
    /\ rt.attempts >= 2

\* C11 (as claimed): no attempt after the first starts later than the timeout
\* after start_time, and the error httpDo returns when it gives up is the
\* transport error of the last attempt made.
C11_NoAttemptPastTimeout ==
    /\ rt.attempts >= 2 => rt.attempt - rt.start <= rt.timeout
    /\ (rt.pc = "done" /\ rt.last = "neterr") => rt.errOf = rt.attempts

\* C12: with a timeout that is zero or negative the loop never sleeps, and
\* httpDo returns after exactly one attempt, at the moment that attempt
\* ended, with that attempt's result, whatever the interval.
C12_NoRetryWithoutTimeout ==
    rt.timeout <= 0 =>
        /\ rt.attempts <= 1
        /\ ~(rt.pc = "loop" /\ rt.attempts >= 1)
        /\ rt.pc = "done" =>
              /\ rt.attempts = 1
              /\ rt.errOf = 1
              /\ rt.now = rt.start + rt.firstDur

C12_Witness ==
    /\ rt.pc = "done" /\ rt.timeout = 0 /\ rt.interval = 0
    /\ rt.attempts = 1 /\ rt.last = "neterr" /\ rt.firstDur = 0

\* C13: when the loop has slept after a failed attempt, the moment the next
\* attempt starts is at least the interval after the start of the failed
\* one; the sleep lasted the interval minus the time the attempt took, and
\* nothing when the attempt took longer than the interval.
C13_AttemptsIntervalApart ==
    (rt.pc = "loop" /\ rt.attempts >= 1) =>
        /\ rt.now - rt.attempt >= rt.interval
        /\ rt.slept = IF rt.now - rt.slept - rt.attempt > rt.interval
                      THEN 0
                      ELSE rt.interval - (rt.now - rt.slept - rt.attempt)

C13_Witness ==
    /\ rt.pc = "loop" /\ rt.attempts >= 1 /\ rt.interval = 2
    /\ rt.slept = 1 /\ rt.now - rt.attempt = 2

\* C14: the outcome of a call whose final response was read is fixed by the
\* status of that response, one case per status: 401 and 403 give an
\* AuthFailure and no data, any other status outside 200..299 gives an
\* ApiError holding the URL, that status and the raw body, and a status in
\* 200..299 gives the body and no error.
C14_OutcomeByStatus ==
    (ax.pc = "returned" /\ ~ax.readErr) =>
        /\ ax.status \in {401, 403} =>
              ax.err.kind = "AuthFailure" /\ ax.data.isNil
        /\ (ax.status \notin {401, 403} /\ ax.status \notin 200..299) =>
              ax.err = [kind |-> "ApiError",
                        URL |-> [Scheme |-> "https", Host |-> gatewayAddress,
                                 Path |-> <<"api">> \o ax.path],
                        StatusCode |-> ax.status, Body |-> ax.body]
        /\ ax.status \in 200..299 =>
              ax.err = NoErr /\ ax.data = Data(ax.body)

C14_Witness ==
    /\ ax.pc = "returned" /\ ~ax.readErr /\ ax.status = 300
    /\ ax.err.kind = "ApiError" /\ ax.err.StatusCode = 300 /\ ax.err.Body # <<>>

\* C15: after a 2xx response whose body was read, a body that json.Unmarshal
\* rejects makes the call return the decode error and call the error
\* callback exactly once, with a message holding the endpoint name and the
\* raw body; a body it accepts makes the call return nil and the callback
\* is not called.
C15_DecodeErrorReported ==
    (ax.pc = "done" /\ ~ax.readErr /\ ax.status \in 200..299) =>
        IF UnmarshalResult(ax.path, ax.body, ZeroResult(ax.path)).err # NoErr
        THEN /\ ax.ret = UnmarshalResult(ax.path, ax.body, ZeroResult(ax.path)).err
             /\ Len(ax.calls) = 1
             /\ ax.calls[1].msg[2] = ax.path
             /\ ax.calls[1].msg[4] = ax.body
             /\ ax.calls[1].err = ax.ret
        ELSE ax.ret = NoErr /\ ax.calls = <<>>

C15_Witness ==
    /\ ax.pc = "done" /\ ax.status = 200 /\ ax.method = "GET"
    /\ ax.ret.kind = "UnmarshalTypeError" /\ Len(ax.calls) = 1
    /\ ax.calls[1].msg[4] = ax.body /\ ax.body # <<>>

\* C16: decoding a JSON string that holds an array of entries with string
\* and number values returns no error and gives a map whose keys are the
\* entry names; each name maps to the text of the value of the entry that
\* bears it (the last one, when several do): a string as it is, a number in
\* decimal, followed by one space and the units when the units are a
\* non-empty string and the text of the value is not empty.
C16_EntriesBecomeDisplayStrings ==
    (cd.pc = "done" /\ cd.op = "DecodedAlert" /\ cd.form = "string"
     /\ cd.inner.kind = "entries") =>
        /\ cd.err = NoErr
        /\ ~cd.v.isNil
        /\ DOMAIN cd.v.m = {cd.inner.entries[k].Name : k \in 1..Len(cd.inner.entries)}
        /\ \A k \in 1..Len(cd.inner.entries) :
              LET e == cd.inner.entries[k] IN
              (\A j \in (k + 1)..Len(cd.inner.entries) : cd.inner.entries[j].Name # e.Name) =>
                  cd.v.m[e.Name] = IF e.unit # <<>> /\ e.shown # <<>>
                                   THEN e.shown \o <<" ">> \o e.unit
                                   ELSE e.shown

C16_Witness ==
    /\ cd.pc = "done" /\ cd.op = "DecodedAlert" /\ cd.form = "string"
    /\ cd.inner.kind = "entries" /\ Len(cd.inner.entries) = 2
    /\ cd.inner.entries[1].Name # cd.inner.entries[2].Name
    /\ cd.inner.entries[1].value = <<"1", "8", "4">>
    /\ cd.v.m[cd.inner.entries[1].Name] = <<"1", "8", "4", " ", "V", "r", "m", "s">>
    /\ cd.v.m[cd.inner.entries[2].Name] = <<"2", ".", "5">>

\* C17 (as claimed): decoding returns an error and leaves the map as it was
\* whenever the input is not a complete JSON string (a string cut short, or
\* a bare text of another kind) or the text inside the string is neither
\* empty nor an array of entries.
C17_MalformedAlertFails ==
    (cd.pc = "done" /\ cd.op = "DecodedAlert"
     /\ (cd.form # "string" \/ (cd.inner.kind = "other" /\ cd.inner.text # <<>>))) =>
        cd.err # NoErr /\ cd.v = cd.v0

\* C17 (amended): as claimed, but for JSON null: a bare null returns no
\* error and leaves the map as it was, and a string that holds null returns
\* no error and replaces the map by an empty one.
C17_MalformedAlertFailsButNull ==
    (cd.pc = "done" /\ cd.op = "DecodedAlert") =>
        /\ (\/ cd.form = "cut"
            \/ cd.form = "bare" /\ cd.inner.text # NullText
            \/ cd.form = "string" /\ cd.inner.kind = "other"
                                  /\ cd.inner.text \notin {<<>>, NullText}) =>
              cd.err # NoErr /\ cd.v = cd.v0
        /\ (cd.form = "bare" /\ cd.inner.text = NullText) =>
              cd.err = NoErr /\ cd.v = cd.v0
        /\ (cd.form = "string" /\ cd.inner.text = NullText) =>
              cd.err = NoErr /\ cd.v = MakeMap

C17_Witness ==
    /\ cd.pc = "done" /\ cd.op = "DecodedAlert" /\ cd.form = "bare"
    /\ cd.inner.kind = "entries" /\ Len(cd.inner.entries) = 1
    /\ cd.err.kind = "into string" /\ cd.v0 = MakeMap /\ cd.v = MakeMap

C19_DurationRoundTrip ==
    (cd.pc = "done" /\ cd.op = "Duration" /\ cd.err = NoErr) =>
        cd.err2 = NoErr /\ cd.v2 = cd.v

C19_Witness ==
    /\ cd.pc = "done" /\ cd.op = "Duration" /\ cd.err = NoErr
    /\ cd.v = 90 * Minute + 45 * Second + 670 * Millisecond
    /\ cd.out # cd.data /\ cd.out # MarshalString(cd.data)
    /\ cd.v2 = cd.v

C21_LoginNeverUsesCoordinator ==
    /\ mpc # "token_wait"
    /\ mmsg.from # NoCaller => mmsg.from \in Callers
    /\ mpc = "login" =>
          /\ mreq.api = LoginApi /\ mreq.api[1] = "login"
          /\ mreq.cookies = <<>>
          /\ mexch = 1
          /\ ENABLED (\E r \in LoginResponses : LoginDone(r))
    /\ (mpc = "reply" /\ mexch > 0) => mexch = 1

C21_Witness ==
    /\ mpc = "reply" /\ mexch = 1
    /\ mresp.kind = "http" /\ mresp.status \in {401, 403}
    /\ merr = "AuthFailure"

\* C22 (as claimed): while the coordinator processes a message no caller
\* receives a value from token_ch, and the value sent next is the token left
\* by every message finished since the previous value was sent.
C22_FirstValueIsThatMutations ==
    [][/\ mpc \in {"doAuthMsg", "login", "reply"} =>
             \A c \in Callers :
                 pc[c] \in RecvPcs => (pc'[c] = pc[c] /\ tok'[c] = tok[c])
       /\ (mpc = "sel2" /\ mpc' = "sel1") =>
             /\ \A c \in Callers : tok'[c] # tok[c] => tok'[c] = authToken
             /\ \A c \in Callers :
                  (pc[c] = "get_recv" /\ pc'[c] = "idle") => ret'[c].val = authToken
             /\ \A t \in owed : t = authToken]_vars

\* C22 (amended): while the coordinator processes a message no caller
\* receives a value from token_ch; the token changes only while a message is
\* being applied, and the value sent next is the token the coordinator holds,
\* which is the token left by the last of the messages finished since the
\* previous value was sent.
C22_NextValueIsLatestMutations ==
    [][/\ mpc \in {"doAuthMsg", "login", "reply"} =>
             \A c \in Callers :
                 pc[c] \in RecvPcs => (pc'[c] = pc[c] /\ tok'[c] = tok[c])
       /\ authToken' # authToken => mpc \in {"doAuthMsg", "login"}
       /\ (mpc = "sel2" /\ mpc' = "sel1") =>
             /\ \A c \in Callers : tok'[c] # tok[c] => tok'[c] = authToken
             /\ \A c \in Callers :
                  (pc[c] = "get_recv" /\ pc'[c] = "idle") => ret'[c].val = authToken
             /\ owed # {} => authToken \in owed]_vars

C22_Witness ==
    \E d \in Callers :
        /\ pc[d] = "set_recv" /\ mmsg.from # d /\ owed = {}
        /\ arg[d] \in Tokens /\ tok[d] \in Tokens /\ tok[d] # arg[d]

\* C23: while a caller is blocked sending a message on auth_ch the coordinator
\* sends at most one value on token_ch, and once it has sent that value it
\* does not come back to its second select before the caller's message was
\* received, whatever the other callers request.
C23_AtMostOneReadBeforeMutation ==
    \A c \in Callers :
        /\ served[c] <= 1
        /\ (pc[c] \in SendPcs /\ served[c] = 1) => mpc # "sel2"

C23_Witness ==
    \E c \in Callers :
        /\ pc[c] \in {"login_send", "relogin_send"} /\ served[c] = 1
        /\ mpc = "login" /\ mmsg.from # c

\* C24: at most one message is being processed at any moment: at most one
\* caller waits for the reply to its message, and it is the sender of the
\* message the coordinator holds; a login exchange is in flight only for that
\* message, one at a time; the token changes only by the application of a
\* message (the token of a set-token message, or what performLogin returned),
\* and a value returned by GetAuthToken is the token the coordinator holds
\* while it processes no message.
C24_OneMutationAtATime ==
    [][/\ Cardinality({c \in Callers :
                         pc'[c] \in {"login_wait", "check_wait", "relogin_wait"}}) <= 1
       /\ \A c \in Callers :
            pc'[c] \in {"login_wait", "check_wait", "relogin_wait"} =>
                (mmsg'.from = c /\ mpc' \in {"doAuthMsg", "login", "reply"})
       /\ (mmsg' # NoMsg) <=> (mpc' \in {"doAuthMsg", "login", "reply"})
       /\ (mreq' # NoReq) => (mmsg' # NoMsg /\ mexch' = 1)
       /\ mpc' = "login" => mreq' # NoReq
       /\ authToken' # authToken =>
            \/ mpc = "doAuthMsg" /\ mmsg.action = cmd_SET_TOKEN /\ authToken' = mmsg.token
            \/ mpc = "login" /\ authToken' = PerformLogin(mresp')[1]
       /\ \A c \in Callers :
            (pc[c] = "get_recv" /\ pc'[c] = "idle") =>
                /\ mmsg = NoMsg /\ mreq = NoReq
                /\ ret'[c].val = authToken /\ authToken' = authToken]_vars

C24_Witness ==
    \E c, d \in Callers :
        /\ c # d
        /\ pc[c] = "idle" /\ ret[c].op = "GetAuthToken" /\ ret[c].val \in Tokens
        /\ pc[d] = "idle" /\ ret[d].op = "DoLogin" /\ ret[d].err = nil
        /\ ret[c].val = authToken /\ mmsg = NoMsg

\* C25: a first response whose status is outside 200..299 and is neither 401
\* nor 403 ends the call at once with an ApiError: one httpDo, no DoLogin, no
\* second request, no message to the coordinator, and the token is unchanged.
C25_ApiErrorEndsCall ==
    [][\A c \in Callers :
          (/\ pc[c] = "req1" /\ pc'[c] # "req1" /\ st1'[c].kind = "http"
           /\ (st1'[c].status < 200 \/ st1'[c].status > 299)
           /\ st1'[c].status \notin {401, 403}) =>
              /\ pc'[c] = "idle"
              /\ ret'[c] = [op |-> "Endpoint", err |-> "ApiError"]
              /\ nHttpDo'[c] = 1 /\ nDoLogin'[c] = 0
              /\ st2'[c] = NoResp /\ relog'[c] = NoRelog
              /\ authToken' = authToken /\ mmsg' = mmsg /\ mpc' = mpc]_vars

C25_Witness ==
    \E c \in Callers :
        /\ pc[c] = "idle" /\ ret[c] = [op |-> "Endpoint", err |-> "ApiError"]
        /\ st1[c] = HttpResp(500) /\ nHttpDo[c] = 1 /\ nDoLogin[c] = 0
        /\ authToken \in Tokens /\ req[c].cookies = <<authToken>>

\* C26: when an httpDo of a non-login call ends with a transport error, the
\* call returns that error at once: the step sends no message to the
\* coordinator, makes no DoLogin and leaves the token as it was; when it is
\* the first httpDo, the call has made no DoLogin and no second request.
C26_TransportErrorReturned ==
    [][\A c \in Callers :
          /\ (pc[c] = "req1" /\ pc'[c] # "req1" /\ st1'[c].kind = "neterr") =>
                /\ pc'[c] = "idle"
                /\ ret'[c] = [op |-> "Endpoint", err |-> "neterr"]
                /\ nDoLogin'[c] = 0 /\ nHttpDo'[c] = 1
                /\ st2'[c] = NoResp /\ relog'[c] = NoRelog
                /\ authToken' = authToken /\ mmsg' = mmsg /\ mpc' = mpc
          /\ (pc[c] = "req2" /\ pc'[c] # "req2" /\ st2'[c].kind = "neterr") =>
                /\ pc'[c] = "idle"
                /\ ret'[c] = [op |-> "Endpoint", err |-> "neterr"]
                /\ nDoLogin'[c] = nDoLogin[c] /\ nDoLogin'[c] = 1
                /\ authToken' = authToken /\ mmsg' = mmsg /\ mpc' = mpc]_vars

C26_Witness ==
    \E c \in Callers :
        /\ pc[c] = "idle" /\ ret[c] = [op |-> "Endpoint", err |-> "neterr"]
        /\ st1[c] = NetErr /\ nDoLogin[c] = 0 /\ nHttpDo[c] = 1
        /\ authToken \in Tokens /\ req[c].cookies = <<authToken>>

\* C27 (as claimed): when the re-login of a call failed, the call made one
\* request only and returned the error of the login, which is a transport
\* error, an AuthFailure or an ApiError.
C27_LoginErrorIsOneOfThree ==
    \A c \in Callers :
        (pc[c] = "idle" /\ ret[c].op = "Endpoint" /\ relog[c][2] # nil) =>
            /\ nHttpDo[c] = 1 /\ st2[c] = NoResp
            /\ ret[c].err = relog[c][2]
            /\ ret[c].err \in {"neterr", "AuthFailure", "ApiError"}

\* C27 (amended): when the re-login of a call failed, the call made one
\* request only and returned the error of the login: a transport error, an
\* AuthFailure, an ApiError, the decoding error of the login response, or the
\* error performLogin makes when the response held no token.
C27_LoginErrorReturned ==
    \A c \in Callers :
        (pc[c] = "idle" /\ ret[c].op = "Endpoint" /\ relog[c][2] # nil) =>
            /\ nHttpDo[c] = 1 /\ st2[c] = NoResp
            /\ nDoLogin[c] = 1
            /\ ret[c].err = relog[c][2]
            /\ ret[c].err \in {"neterr", "AuthFailure", "ApiError",
                               "DecodeError", "NoAuthToken"}

C27_Witness ==
    \E c \in Callers :
        /\ pc[c] = "idle" /\ ret[c].op = "Endpoint" /\ relog[c][2] = "NoAuthToken"
        /\ ret[c].err = "NoAuthToken" /\ nHttpDo[c] = 1
        /\ st1[c] = HttpResp(401)

\* C28: a non-login call whose re-sent request was answered 401 or 403, the
\* body read, returns an AuthFailure for its own URL whose ErrorText and
\* Message are the error and message strings of the body of that response
\* and not those of the first 401/403 response; when that body is not
\* parsable JSON the error is still an AuthFailure, with both fields empty.
C28_AuthFailureFromFinalBody ==
    (/\ ax.pc = "returned" /\ ~(Len(ax.path) >= 2 /\ ax.path[1] = "login")
     /\ ax.status \in {401, 403} /\ ~ax.readErr) =>
        /\ ax.first # NoResp
        /\ ax.err.kind = "AuthFailure"
        /\ ax.err.URL.Path = <<"api">> \o ax.path
        /\ \A e, m \in {<<"e">>, <<"m">>, <<"x">>, <<"y">>} :
              /\ ax.body = ErrorBody(e, m) =>
                    (ax.err.ErrorText = e /\ ax.err.Message = m)
              /\ (ax.first.body = ErrorBody(e, m) /\ ax.body # ax.first.body) =>
                    ~(ax.err.ErrorText = e /\ ax.err.Message = m)
        /\ ~JsonParse(ax.body).ok =>
              (ax.err.ErrorText = <<>> /\ ax.err.Message = <<>>)

C28_Witness ==
    /\ ax.pc = "returned" /\ ax.path = StatusApi /\ ax.status = 403 /\ ~ax.readErr
    /\ ax.first.status = 401 /\ ax.first.body = ErrorBody(<<"x">>, <<"y">>)
    /\ ax.body = ErrorBody(<<"e">>, <<"m">>)
    /\ ax.err.kind = "AuthFailure"
    /\ ax.err.ErrorText = <<"e">> /\ ax.err.Message = <<"m">>

\* C29 (as claimed): no line logged for a login call shows the request
\* payload or the body of the response.
C29_LoginNeverLogged ==
    (Len(ax.path) >= 2 /\ ax.path[1] = "login") =>
        \A i \in 1..Len(ax.log) :
            /\ ax.log[i].shown.text # ax.payload.b
            /\ (ax.status # 0 /\ ax.body # <<>>) => ax.log[i].shown.text # ax.body

\* C29 (amended): no line logged for a login call shows the request payload
\* (the "Calling API" line shows "(sensitive)"), and after a 2xx response no
\* line shows anything of the body; after a response with another status the
\* "Request failed" line shows the whole body when the content type is
\* application/json or text/..., its length otherwise, and when the status is
\* not 401 or 403 the "Login failed" line shows the body again, quoted.
C29_LoginLogsFailureBodies ==
    (Len(ax.path) >= 2 /\ ax.path[1] = "login" /\ ax.pc = "logged") =>
        /\ \A i \in 1..Len(ax.log) : ax.log[i].shown.text # ax.payload.b
        /\ ax.log[2].format = "Calling API: method=%s url=%s body=%s"
        /\ ax.log[2].shown.shown = "(sensitive)"
        /\ (ax.status \in 200..299 /\ ~ax.readErr) =>
              /\ \A i \in 1..Len(ax.log) : ax.log[i].shown.text = <<>>
              /\ ax.log[3].format = "Request succeeded: status=%d body=%s"
              /\ ax.log[3].shown.shown = "(sensitive)"
        /\ (ax.status # 0 /\ ax.status \notin 200..299 /\ ~ax.readErr) =>
              /\ ax.log[3].format = "Request failed: status=%d body=%s"
              /\ IF ax.ctype \in {<<"application", "json">>, <<"text", "plain">>}
                 THEN ax.log[3].shown.text = ax.body
                 ELSE ax.log[3].shown.shown = "(%d bytes)" /\ ax.log[3].shown.n = Len(ax.body)
              /\ ax.log[4].format = "Login failed: %s"
              /\ ax.status \notin {401, 403} =>
                    /\ ax.log[4].shown.text = Quote(ax.body)
                    /\ Len(ax.log[4].shown.text) >= Len(ax.body) + 2

C29_Witness ==
    /\ ax.path = LoginApi /\ ax.pc = "logged" /\ ax.status = 401 /\ ~ax.readErr
    /\ ax.ctype = <<"application", "json">> /\ ax.body = ErrorBody(<<"e">>, <<"m">>)
    /\ ax.log[3].shown.text = ax.body
    /\ ax.log[2].shown.shown = "(sensitive)"

\* C30: when two or more entries of a decoded alert bear the same name, the
\* map holds one key for them, and its text is made of the last such entry
\* alone: the text of its value, then a space and its units when both are
\* non-empty; it is not the text of an earlier entry that shows differently,
\* and it carries no units when the last entry has none.
C30_LastDuplicateWins ==
    (cd.pc = "done" /\ cd.op = "DecodedAlert" /\ cd.form = "string"
     /\ cd.inner.kind = "entries") =>
        \A k, j \in 1..Len(cd.inner.entries) :
            LET first == cd.inner.entries[k]
                last == cd.inner.entries[j]
                Shown(e) == IF e.unit # <<>> /\ e.shown # <<>>
                            THEN e.shown \o <<" ">> \o e.unit ELSE e.shown
            IN (/\ k < j /\ first.Name = last.Name
                /\ \A i \in (j + 1)..Len(cd.inner.entries) :
                      cd.inner.entries[i].Name # last.Name) =>
                   /\ cd.err = NoErr
                   /\ Cardinality(DOMAIN cd.v.m) < Len(cd.inner.entries)
                   /\ cd.v.m[last.Name] = Shown(last)
                   /\ Shown(first) # Shown(last) => cd.v.m[last.Name] # Shown(first)
                   /\ last.unit = <<>> => Len(cd.v.m[last.Name]) = Len(last.shown)
                   /\ last.shown = <<>> => cd.v.m[last.Name] = <<>>

C30_Witness ==
    /\ cd.pc = "done" /\ cd.op = "DecodedAlert" /\ cd.form = "string"
    /\ cd.inner.kind = "entries" /\ Len(cd.inner.entries) = 2
    /\ cd.inner.entries[1].Name = cd.inner.entries[2].Name
    /\ cd.inner.entries[1].shown = <<"1", "8", "4">>
    /\ cd.inner.entries[1].unit = <<"V", "r", "m", "s">>
    /\ cd.inner.entries[2].value = <<"2", ".", "5", "0">>
    /\ DOMAIN cd.v.m = {cd.inner.entries[2].Name}
    /\ cd.v.m[cd.inner.entries[2].Name] = <<"2", ".", "5">>

\* C31: an alert entry whose value is neither a number nor a string (a
\* boolean, null, a key left out, an object, an array) never fails the
\* decode: its name is mapped to a text that begins "unrecognized type " and
\* embeds the entry as %v prints it (followed by the units when they are a
\* non-empty string), and every other entry is decoded as usual.
C31_OtherTypeFallsBack ==
    (/\ cd.pc = "done" /\ cd.op = "DecodedAlert" /\ cd.form = "string"
     /\ cd.inner.kind = "entries"
     /\ \E k \in 1..Len(cd.inner.entries) :
           cd.inner.entries[k].value \in {x.value : x \in OtherValues}) =>
        /\ cd.err = NoErr
        /\ ~cd.v.isNil
        /\ DOMAIN cd.v.m = {cd.inner.entries[k].Name : k \in 1..Len(cd.inner.entries)}
        /\ \A k \in 1..Len(cd.inner.entries) :
              LET e == cd.inner.entries[k]
                  text == cd.v.m[e.Name]
              IN (\A j \in (k + 1)..Len(cd.inner.entries) :
                     cd.inner.entries[j].Name # e.Name) =>
                   IF e.value \in {x.value : x \in OtherValues}
                   THEN /\ Len(text) >= 3 + Len(e.Name)
                        /\ text[1] = "unrecognized type "
                        /\ text[2] = "{"
                        /\ SubSeq(text, 3, 2 + Len(e.Name)) = e.Name
                        /\ text = e.shown \o (IF e.unit # <<>> THEN <<" ">> \o e.unit
                                               ELSE <<>>)
                   ELSE text = IF e.unit # <<>> /\ e.shown # <<>>
                               THEN e.shown \o <<" ">> \o e.unit
                               ELSE e.shown

C31_Witness ==
    /\ cd.pc = "done" /\ cd.op = "DecodedAlert" /\ cd.form = "string"
    /\ cd.inner.kind = "entries" /\ Len(cd.inner.entries) = 2
    /\ cd.inner.entries[1].Name = <<"a">> /\ cd.inner.entries[2].Name = <<"b">>
    /\ cd.inner.entries[1].value = <<"t", "r", "u", "e">>
    /\ cd.inner.entries[2].value = <<"1", "8", "4">>
    /\ cd.err = NoErr
    /\ cd.v.m[<<"a">>] = <<"unrecognized type ", "{", "a", " ", "true", " ", "<nil>", "}">>
    /\ cd.v.m[<<"b">>] = <<"1", "8", "4", " ", "V", "r", "m", "s">>

\* C32: no deadlock between the callers and the coordinator.  The
\* coordinator never waits to receive from its own token channel; when it
\* sends a result, the sender of the message it processed is waiting for
\* that result; a caller that waits for a result is the sender of the
\* message being processed; and whenever some caller waits on a coordinator
\* channel, the coordinator can take a step or the login exchange it is
\* making can end.
C32_NoDeadlock ==
    /\ mpc # "token_wait"
    /\ mpc = "reply" => pc[mmsg.from] \in {"login_wait", "check_wait", "relogin_wait"}
    /\ \A c \in Callers :
          pc[c] \in {"login_wait", "check_wait", "relogin_wait"} =>
              mmsg.from = c /\ mpc \in {"doAuthMsg", "login", "reply"}
    /\ (\E c \in Callers :
           pc[c] \in SendPcs \cup RecvPcs \cup {"login_wait", "check_wait", "relogin_wait"}) =>
          ENABLED (AuthManager \/ \E r \in LiveLogins : LoginDone(r))

C32_Witness ==
    /\ mpc = "sel2"
    /\ \E c, d \in Callers :
          /\ pc[c] = "set_recv" /\ tok[c] # arg[c] /\ tok[c] # NoToken
          /\ pc[d] \in SendPcs

\* C33: every SetAuthToken call eventually returns, whatever the other
\* callers of the client do meanwhile.
C33_SetAuthTokenReturns ==
    \A c \in Callers : (pc[c] \in {"set_send", "set_recv"}) ~> (pc[c] = "idle")

\* C34 (as claimed): every GetAuthToken call eventually returns, every
\* exchange ending, however the other callers go on sending DoLogin,
\* checkLogin and SetAuthToken messages.
C34_GetAuthTokenReturns ==
    \A c \in Callers : (pc[c] = "get_recv") ~> (pc[c] = "idle")

\* C34 (amended): every GetAuthToken call eventually returns, every exchange
\* ending, provided the coordinator again and again finds no message waiting
\* on auth_ch and so reaches its second select.
C34_GetAuthTokenReturnsWhenQuiet ==
    ([]<>(mpc = "sel2")) => \A c \in Callers : (pc[c] = "get_recv") ~> (pc[c] = "idle")

C34_Witness ==
    \E c, d \in Callers :
        /\ pc[c] = "idle" /\ ret[c].op = "GetAuthToken" /\ ret[c].val \in Tokens
        /\ pc[d] \in SendPcs /\ served[d] = 1

\* C35: when a login made for one caller's checkLogin succeeds while other
\* callers are blocked in checkLogin, that login is the only exchange made
\* for those calls: the winner's checkLogin returns nil after one exchange,
\* the token it obtained is still held when each waiting caller's message
\* is processed, no exchange is made for that message and its checkLogin
\* returns nil too.
C35_OneLoginForConcurrentCheckLogins ==
    /\ \A d \in pending :
          /\ pc[d] \in {"check_send", "check_wait"}
          /\ authToken # NoToken
          /\ mmsg.from = d =>
                /\ mmsg.action = cmd_CHECK_LOGIN
                /\ mpc \in {"doAuthMsg", "reply"}
                /\ mexch = 0
                /\ mpc = "reply" => merr = nil
    /\ (mpc = "reply" /\ pending # {} /\ mmsg.from \notin pending) =>
          /\ mmsg.action = cmd_CHECK_LOGIN
          /\ pc[mmsg.from] = "check_wait"
          /\ mbefore = NoToken
          /\ mexch = 1
          /\ merr = nil

C35_Witness ==
    \E c, d \in Callers :
        /\ pending = {d} /\ mpc = "reply" /\ mmsg.from = d
        /\ mexch = 0 /\ merr = nil
        /\ pc[c] = "req_token" /\ chk[c] = <<1, "nil">>

\* C36: one endpoint call makes its checkLogin first and once; the
\* checkLogin makes at most one login exchange and the one DoLogin a 401 or
\* 403 may cause makes one more, at most two in all; the request is sent at
\* most twice; and once checkLogin has returned, failed or not, the call
\* goes on to its request instead of returning.
C36_TwoLoginsTwoSends ==
    /\ mexch <= 1
    /\ \A c \in Callers :
          /\ chk[c][1] <= 1
          /\ nDoLogin[c] <= 1
          /\ chk[c][1] + nDoLogin[c] <= 2
          /\ nHttpDo[c] <= 2
          /\ pc[c] \in {"check_send", "check_wait"} =>
                chk[c] = NoChk /\ nDoLogin[c] = 0 /\ nHttpDo[c] = 0
          /\ chk[c] # NoChk =>
                /\ pc[c] \in {"req_token", "req1", "relogin_send", "relogin_wait",
                              "req_token2", "req2"}
                /\ ret[c] = NoRet
                /\ pc[c] = "req_token" => nHttpDo[c] = 0 /\ req[c] = NewRequest(api[c], <<>>)
                /\ pc[c] # "req_token" => nHttpDo[c] >= 1
                /\ chk[c][2] = "failed" => chk[c][1] = 1

C36_Witness ==
    \E c \in Callers :
        /\ pc[c] = "req2" /\ chk[c] = <<1, "failed">>
        /\ nDoLogin[c] = 1 /\ relog[c][2] = nil /\ nHttpDo[c] = 2

\* C37: when the coordinator sends the result of a DoLogin or checkLogin
\* message, the result is nil exactly when the token it holds, the one the
\* processing of that message left, is non-empty; the result goes to the
\* sender of that message, which is waiting for it, and to no other caller.
C37_ResultFollowsToken ==
    [][(mpc = "reply" /\ mpc' # "reply") =>
          LET c == mmsg.from IN
          /\ merr = nil <=> authToken # NoToken
          /\ mmsg.action \in {cmd_DO_LOGIN, cmd_CHECK_LOGIN}
          /\ pc[c] \in {"login_wait", "check_wait", "relogin_wait"}
          /\ authToken' = authToken
          /\ pc[c] = "login_wait" => ret'[c] = [op |-> "DoLogin", err |-> merr]
          /\ pc[c] = "check_wait" =>
                chk'[c] = <<mexch, IF merr = nil THEN "nil" ELSE "failed">>
          /\ pc[c] = "relogin_wait" => relog'[c] = <<authToken, merr>>
          /\ \A d \in Callers \ {c} :
                /\ pc'[d] = pc[d] /\ ret'[d] = ret[d]
                /\ relog'[d] = relog[d] /\ chk'[d] = chk[d]]_vars

C37_Witness ==
    \E c, d \in Callers :
        /\ pc[c] = "idle" /\ ret[c] = [op |-> "DoLogin", err |-> nil]
        /\ pc[d] = "idle" /\ ret[d] = [op |-> "DoLogin", err |-> "NoAuthToken"]
        /\ authToken = NoToken

\* C38: with interval > 0 and timeout > 0 the loop makes at most
\* ceil(timeout / interval) + 1 attempts: after that many it is not about to
\* make another, the timeout having passed; it goes round again only after
\* a transport error, and an attempt that ends with a response or with
\* another error is the last.
C38_AttemptsBounded ==
    (rt.interval > 0 /\ rt.timeout > 0) =>
        /\ rt.attempts <= ((rt.timeout + rt.interval - 1) \div rt.interval) + 1
        /\ rt.attempts = ((rt.timeout + rt.interval - 1) \div rt.interval) + 1 =>
              /\ rt.pc \in {"check", "done"}
              /\ rt.pc = "check" => rt.now - rt.start >= rt.timeout
        /\ (rt.pc \in {"loop", "check"} /\ rt.attempts >= 1) => rt.last = "neterr"
        /\ rt.last \in {"error", "response"} =>
              rt.pc = "done" /\ rt.errOf = rt.attempts

C38_Witness ==
    /\ rt.pc = "done" /\ rt.interval = 1 /\ rt.timeout = 3
    /\ rt.attempts = 4 /\ rt.last = "neterr"

\* C39 (as claimed): the login made for a message succeeded exactly when the
\* login response was decoded to a non-empty token, whether or not the
\* decoding reported an error, and that token is then the one kept; a 2xx
\* response without a token gives the error "No auth token returned from
\* login API call" and an empty token.
C39_TokenDecidesSuccess ==
    (mpc = "reply" /\ mexch = 1) =>
        LET decoded == IF mresp.kind = "http" THEN mresp.token ELSE NoToken IN
        /\ merr = nil <=> decoded # NoToken
        /\ decoded # NoToken => authToken = decoded
        /\ (mresp.kind = "http" /\ mresp.status \in 200..299 /\ mresp.token = NoToken) =>
              merr = "NoAuthToken" /\ authToken = NoToken

\* C39 (amended): as claimed, but a 2xx response without a token gives that
\* error only when its decoding reported none; when the decoding failed, the
\* error is the decoding error, the token empty all the same.
C39_TokenDecidesSuccessOrDecodeError ==
    (mpc = "reply" /\ mexch = 1) =>
        LET decoded == IF mresp.kind = "http" THEN mresp.token ELSE NoToken IN
        /\ merr = nil <=> decoded # NoToken
        /\ decoded # NoToken => authToken = decoded
        /\ (mresp.kind = "http" /\ mresp.status \in 200..299 /\ mresp.token = NoToken) =>
              /\ merr = IF mresp.decoded THEN "NoAuthToken" ELSE "DecodeError"
              /\ authToken = NoToken

C39_Witness ==
    /\ mpc = "reply" /\ mexch = 1
    /\ mresp = LoginBody(200, "T2", FALSE)
    /\ merr = nil /\ authToken = "T2" /\ mbefore = "T1"

====
